---- MODULE Spec2Model ----
(***************************************************************************)
(* A model of the x402-forge payment pipeline.                             *)
(*                                                                         *)
(*   PaymentVerifier.verify           src/src/utils/PaymentVerifier.js     *)
(*   PaymentProcessor                 src/src/services/PaymentProcessor.js *)
(*   the job registry and audit sink  src/src/sdk/x402Client.js            *)
(*   BridgeLayer, ProofEngine         src/unnamed/part_001                 *)
(*   AgentWallet.waitForConfirmation  src/src/sdk/x402Client.js            *)
(*                                                                         *)
(* JavaScript values are encoded as follows.  A string field that is       *)
(* undefined or null holds Null; JavaScript reads both as false, and so    *)
(* does Truthy.  A numeric expiresAt that is undefined, null or 0 holds 0, *)
(* which JavaScript also reads as false ("receipt.expiresAt && ...").      *)
(* receipt.metadata is a record [present, jobId]; present = FALSE stands   *)
(* for an undefined metadata object, which "metadata?.jobId" reads as      *)
(* undefined.                                                              *)
(***************************************************************************)
EXTENDS Integers, Sequences, FiniteSets, TLC

VARIABLES
  \* ---- PaymentVerifier.verify, one call
  vpc,        \* "idle" | "returned"
  options,    \* the argument of verify: txHash, expectedAmount, expectedAsset
  fetched,    \* what fetchTransactionReceipt produced for options.txHash
  now,        \* Date.now() at the expiry check
  vresult,    \* the receipt verify returned
  \* ---- PaymentProcessor.processPaymentRequest
  pc,         \* position of the current call
  calls,      \* number of calls started so far
  txHash,     \* argument txHash
  jobConfig,  \* argument jobConfig: amount, asset
  receipt,    \* const receipt = await this.verifier.verify(...)
  jobId,      \* const jobId
  result,     \* const result = await this.executeJob(jobId, jobConfig)
  job,        \* state of the registry's job run() was called on
  timer,      \* the setTimeout of executeJob's race
  error,      \* the error caught by the catch block / raised to the caller
  outcome,    \* what the call handed to its caller
  auditLog,   \* the audit sink's entries, append-only
  logStart,   \* length of auditLog when the current call started
  trace,      \* the actions of the current call, in order
  \* ---- BridgeLayer.verifyRequest, one call
  bpc,          \* "idle" | "onChain" | "returned" | "raised"
  request,      \* the argument: its X-402-Payment header and whether the
                \* claim it carries is one that needs multi-party authorization
  payment,      \* const payment = this.parsePaymentHeader(paymentHeader)
  verification, \* const verification = await this.verifyOnChain(payment)
  bresult,      \* the object verifyRequest returned
  btrace,       \* the actions of the call, in order
  \* ---- BridgeLayer.automateSettlement, one call
  spc,          \* "idle" | "estimate" | "execute" | "wait" | "returned" | "raised"
  spayment,     \* the argument payment
  gasEstimate,  \* const gasEstimate
  settlementTx, \* const settlementTx
  sresult,      \* the object automateSettlement returned
  serror,       \* the error automateSettlement raised
  strace,       \* the actions of the call, in order
  \* ---- AgentWallet.waitForConfirmation, one call
  wpc,          \* "idle" | "lookup" | "sleep" | "hung" | "returned" | "raised"
  wopts,        \* the argument options
  wclock,       \* Date.now(), in milliseconds
  startTime,    \* const startTime = Date.now()
  polls,        \* how many times getTransactionReceipt was called
  lastAnswer,   \* const receipt = await this.getTransactionReceipt(txHash)
  wresult,      \* the object waitForConfirmation returned
  werror,       \* the error waitForConfirmation raised
  \* ---- ProofEngine, one engine and one proof
  epc,          \* "new" | "ready" | "holding" | "failed" | "verified"
  algorithm,    \* this.algorithm
  proofStorage, \* whether this.proofStorage is set
  stored,       \* what proofStorage.store was given, in order
  issued,       \* the proof as generateProof returned it, if it did
  proof,        \* the caller's proof object
  presented,    \* the proof object as it was handed to verifyProof
  verdict,      \* "none" | "true" | "false" | "raised": how verifyProof ended
  eerror,       \* the error generateProof or verifyProof raised
  \* ---- ProofEngine.generateAuditSummary, one call
  sumpc,        \* "idle" | "returned"
  proofsIn,     \* the argument proofs
  summary,      \* the object generateAuditSummary returned
  \* ---- AgentMesh.splitPayment, one call
  splitpc,      \* "idle" | "waiting" | "returned" | "raised"
  splitOf,      \* the argument payment
  recipients,   \* the argument recipients
  transfers,    \* the splits handed to executePayment, in order
  settled,      \* per transfer: "pending" | "ok" | "failed"
  splitResult,  \* the object splitPayment returned
  splitError,   \* the error splitPayment raised
  \* ---- AgentMesh: the registry, one routeTask call, one coordinateTask call
  meshpc,          \* "new" | "ready"
  networkNodes,    \* this.networkNodes
  routingStrategy, \* this.routingStrategy
  other,           \* a second routeTask call: [pc, task, node], where pc
                   \* is "idle" | "sending" | "raised" | "ended"
  rpc,             \* routeTask: "idle" | "sending" | "returned" | "raised"
  rtask,           \* routeTask: the argument task
  selectedNode,    \* routeTask: const selectedNode
  sent,            \* routeTask: what sendTaskToNode was called with, in order
  routeResult,     \* routeTask: the object returned
  routeError,      \* routeTask: the error raised
  cpc,             \* coordinateTask: "idle" | "waiting" | "returned" | "raised"
  ctask,           \* coordinateTask: the argument task
  subtasks,        \* coordinateTask: the subtasks given to routeTask, in order
  subNode,         \* coordinateTask: per subtask, the node routeTask selected
  subState,        \* coordinateTask: per subtask "sending" | "ok" | "failed"
  coordResult,     \* coordinateTask: the object returned
  coordError,      \* coordinateTask: the error raised
  \* ---- TaskOrchestrator: one request
  opc,                  \* "new" | "idle" | "paying" | "waiting" | "notifying"
                        \* | "returned" | "raised"
  defaultConfirmations, \* this.defaultConfirmations
  oservice,             \* "render" | "process": the method that was called
  oconfig,              \* the argument config
  paymentTx,            \* const paymentTx
  oreceipt,             \* const receipt
  notified,             \* the payloads notifyRenderAgent posted, in order
  oresult,              \* the object returned
  oerror,               \* the error raised
  otrace                \* the calls of the request, in order

verifierVars == <<vpc, options, fetched, now, vresult>>
processorVars == <<pc, calls, txHash, jobConfig, receipt, jobId, result, job,
                   timer, error, outcome, auditLog, logStart, trace>>
bridgeVars == <<bpc, request, payment, verification, bresult, btrace,
                spc, spayment, gasEstimate, settlementTx, sresult, serror,
                strace>>
walletVars == <<wpc, wopts, wclock, startTime, polls, lastAnswer, wresult,
                werror>>
engineVars == <<epc, algorithm, proofStorage, stored, issued, proof,
                presented, verdict, eerror>>
summaryVars == <<sumpc, proofsIn, summary>>
splitVars == <<splitpc, splitOf, recipients, transfers, settled, splitResult,
               splitError>>
registryVars == <<meshpc, networkNodes, routingStrategy>>
routeVars == <<rpc, rtask, selectedNode, sent, routeResult, routeError>>
coordVars == <<cpc, ctask, subtasks, subNode, subState, coordResult,
               coordError>>
meshVars == <<registryVars, routeVars, coordVars, other>>
orchestratorVars == <<opc, defaultConfirmations, oservice, oconfig, paymentTx,
                      oreceipt, notified, oresult, oerror, otrace>>
vars == <<verifierVars, processorVars, bridgeVars, walletVars, engineVars,
          summaryVars, splitVars, meshVars, orchestratorVars>>

\* What the actions of one component leave alone
outsideVerifier == <<processorVars, bridgeVars, walletVars,
                     engineVars, summaryVars, splitVars, meshVars,
                     orchestratorVars>>
outsideProcessor == <<verifierVars, bridgeVars, walletVars,
                     engineVars, summaryVars, splitVars, meshVars,
                     orchestratorVars>>
outsideBridge == <<verifierVars, processorVars, walletVars,
                     engineVars, summaryVars, splitVars, meshVars,
                     orchestratorVars>>
outsideWallet == <<verifierVars, processorVars, bridgeVars,
                     engineVars, summaryVars, splitVars, meshVars,
                     orchestratorVars>>
outsideEngine == <<verifierVars, processorVars, bridgeVars, walletVars,
                   summaryVars, splitVars, meshVars, orchestratorVars>>
outsideSummary == <<verifierVars, processorVars, bridgeVars, walletVars,
                    engineVars, splitVars, meshVars, orchestratorVars>>
outsideSplit == <<verifierVars, processorVars, bridgeVars, walletVars,
                  engineVars, summaryVars, meshVars, orchestratorVars>>
\* The second routeTask call is left alone by the first and by coordinateTask
outsideMesh == <<verifierVars, processorVars, bridgeVars, walletVars,
                 engineVars, summaryVars, splitVars, orchestratorVars, other>>
outsideOrchestrator ==
  <<verifierVars, processorVars, bridgeVars, walletVars, engineVars,
    summaryVars, splitVars, meshVars>>

(***************************************************************************)
(* Bounds of the model                                                     *)
(***************************************************************************)
MaxTime == 2
MaxCalls == 1

Null == "null"
Truthy(s) == s # Null

TxHashes == {"0xabc", "0xdef"}
Amounts == {"0.5", "0.4", "0.50"}
Assets == {"USDC", "ETH"}
Statuses == {"confirmed", "pending", "failed"}
JobIds == {"job-1", "job-2"}
Times == 1..MaxTime
Expiries == 0..MaxTime

\* from, to, blockNumber and service of a ledger record vary together
Origins ==
  { [from |-> "0xA", to |-> "0xB", blockNumber |-> 12345678, service |-> "datafeed"],
    [from |-> "0xC", to |-> "0xD", blockNumber |-> 12345679, service |-> "render"] }

Metadatas ==
  [present : {TRUE}, jobId : JobIds \cup {Null}] \cup
  {[present |-> FALSE, jobId |-> Null]}

\* The records the ledger can hold for a transaction hash
LedgerReceipts ==
  { [txHash |-> h, amount |-> a, asset |-> s, from |-> o.from, to |-> o.to,
     status |-> st, blockNumber |-> o.blockNumber, service |-> o.service,
     metadata |-> m, jobId |-> j, expiresAt |-> e] :
      h \in TxHashes, a \in Amounts, s \in Assets, o \in Origins,
      st \in Statuses, m \in Metadatas, j \in JobIds \cup {Null},
      e \in Expiries }

LedgerFaults == {"ECONNREFUSED", "RPC timeout"}

\* Fills the receipt slot of a fetch that produced no record
NoRecord ==
  [txHash |-> Null, amount |-> Null, asset |-> Null, from |-> Null, to |-> Null,
   status |-> Null, blockNumber |-> 0, service |-> Null,
   metadata |-> [present |-> FALSE, jobId |-> Null], jobId |-> Null,
   expiresAt |-> 0]

\* What fetchTransactionReceipt(txHash) can produce: a record, nothing, or a
\* transport fault
Fetches(h) ==
  { [kind |-> "receipt", receipt |-> r, message |-> Null] :
      r \in {x \in LedgerReceipts : x.txHash = h} } \cup
  { [kind |-> "none", receipt |-> NoRecord, message |-> Null] } \cup
  { [kind |-> "fault", receipt |-> NoRecord, message |-> m] : m \in LedgerFaults }

VerifyOptions ==
  [txHash : TxHashes, expectedAmount : Amounts, expectedAsset : Assets]

(***************************************************************************)
(* PaymentVerifier.verify                                                  *)
(***************************************************************************)
ReasonNotFound == "Transaction not found"
ReasonAmountMismatch == "Amount mismatch"
ReasonAssetMismatch == "Asset mismatch"
ReasonNotConfirmed == "Transaction not confirmed"
ReasonExpired == "Payment expired"

\* receipt.amount !== expectedAmount: strict equality of the two strings
AmountMismatch_Numeric(opts, r) ==
  LET Numeric(a) == IF a = "0.4" THEN 40 ELSE 50
  IN Numeric(r.amount) # Numeric(opts.expectedAmount)
AmountMismatch(opts, r) == r.amount # opts.expectedAmount

\* receipt.asset !== expectedAsset
AssetMismatch(opts, r) == r.asset # opts.expectedAsset

\* receipt.status !== 'confirmed'
NotConfirmed_OnlyFailed(r) == r.status = "failed"
NotConfirmed(r) == r.status # "confirmed"

\* receipt.expiresAt && Date.now() > receipt.expiresAt
HasExpiry(r) == r.expiresAt # 0
IsExpired_Unguarded(r, t) == t > r.expiresAt
IsExpired(r, t) == HasExpiry(r) /\ t > r.expiresAt

ValidReceipt_SwapsParties(opts, r) ==
  [valid |-> TRUE, txHash |-> opts.txHash, amount |-> r.amount,
   asset |-> r.asset, from |-> r.to, to |-> r.from,
   blockNumber |-> r.blockNumber, service |-> r.service,
   metadata |-> r.metadata, jobId |-> r.jobId]
ValidReceipt(opts, r) ==
  [valid |-> TRUE, txHash |-> opts.txHash, amount |-> r.amount,
   asset |-> r.asset, from |-> r.from, to |-> r.to,
   blockNumber |-> r.blockNumber, service |-> r.service,
   metadata |-> r.metadata, jobId |-> r.jobId]

\* verify with the status tested before the amount and the asset
verify_StatusFirst(opts, f, t) ==
  IF f.kind = "fault"
    THEN [valid |-> FALSE, reason |-> f.message, txHash |-> opts.txHash]
  ELSE IF f.kind = "none"
    THEN [valid |-> FALSE, reason |-> ReasonNotFound, txHash |-> opts.txHash]
  ELSE IF NotConfirmed(f.receipt)
    THEN [valid |-> FALSE, reason |-> ReasonNotConfirmed,
          status |-> f.receipt.status]
  ELSE IF AmountMismatch(opts, f.receipt)
    THEN [valid |-> FALSE, reason |-> ReasonAmountMismatch,
          expected |-> opts.expectedAmount, received |-> f.receipt.amount]
  ELSE IF AssetMismatch(opts, f.receipt)
    THEN [valid |-> FALSE, reason |-> ReasonAssetMismatch,
          expected |-> opts.expectedAsset, received |-> f.receipt.asset]
  ELSE IF IsExpired(f.receipt, t)
    THEN [valid |-> FALSE, reason |-> ReasonExpired,
          expiresAt |-> f.receipt.expiresAt]
  ELSE ValidReceipt(opts, f.receipt)

\* verify(options): f is what fetchTransactionReceipt produced, t is
\* Date.now().  A fault of the lookup is caught and becomes a receipt.
verify(opts, f, t) ==
  IF f.kind = "fault"
    THEN [valid |-> FALSE, reason |-> f.message, txHash |-> opts.txHash]
  ELSE IF f.kind = "none"
    THEN [valid |-> FALSE, reason |-> ReasonNotFound, txHash |-> opts.txHash]
  ELSE IF AmountMismatch(opts, f.receipt)
    THEN [valid |-> FALSE, reason |-> ReasonAmountMismatch,
          expected |-> opts.expectedAmount, received |-> f.receipt.amount]
  ELSE IF AssetMismatch(opts, f.receipt)
    THEN [valid |-> FALSE, reason |-> ReasonAssetMismatch,
          expected |-> opts.expectedAsset, received |-> f.receipt.asset]
  ELSE IF NotConfirmed(f.receipt)
    THEN [valid |-> FALSE, reason |-> ReasonNotConfirmed,
          status |-> f.receipt.status]
  ELSE IF IsExpired(f.receipt, t)
    THEN [valid |-> FALSE, reason |-> ReasonExpired,
          expiresAt |-> f.receipt.expiresAt]
  ELSE ValidReceipt(opts, f.receipt)

NoOptions == [txHash |-> Null, expectedAmount |-> Null, expectedAsset |-> Null]
NoFetch == [kind |-> "none", receipt |-> NoRecord, message |-> Null]
NoReceipt == [valid |-> FALSE, reason |-> Null]

VerifierInit ==
  /\ vpc = "idle"
  /\ options = NoOptions
  /\ fetched = NoFetch
  /\ now = 1
  /\ vresult = NoReceipt

\* One call of verify(options): the ledger answers, the checks run
VerifyCall ==
  /\ vpc = "idle"
  /\ \E o \in VerifyOptions, t \in Times :
       \E f \in Fetches(o.txHash) :
         /\ options' = o
         /\ fetched' = f
         /\ now' = t
         /\ vresult' = verify(o, f, t)
  /\ vpc' = "returned"
  /\ UNCHANGED outsideVerifier

\* The caller is done with the receipt; the verifier keeps no state
VerifyDone ==
  /\ vpc = "returned"
  /\ vpc' = "idle"
  /\ options' = NoOptions
  /\ fetched' = NoFetch
  /\ now' = 1
  /\ vresult' = NoReceipt
  /\ UNCHANGED outsideVerifier

(***************************************************************************)
(* PaymentProcessor                                                        *)
(***************************************************************************)
\* An Error object: its message and the place that created it
Err(m, o) == [message |-> m, origin |-> o]
NoError == Err(Null, Null)
ErrNoJobId == Err("No job ID found in payment metadata", "processPaymentRequest")
ErrJobNotFound(id) == Err("Job " \o id \o " not found", "executeJob")
ErrJobTimeout == Err("Job timeout", "deadline")
\* getJob raising: the processor's own stub, or the client's registry lookup
RegistryErrors ==
  { Err("getJob not implemented", "getJob"),
    Err("Failed to get job: Not Found", "getJob") }
\* job.run() rejecting: the client's request to the job's run address fails
RunErrors == { Err("Request timeout", "run") }
\* logAudit raising: the client's request to the audit address fails
AuditErrors == { Err("Request timeout", "logAudit") }

Results == {"result-A", "result-B"}
JobConfigs == [amount : {"0.5", "0.4"}, asset : Assets \cup {Null}]
NoOutcome == [kind |-> "none"]

\* jobConfig.asset || 'USDC'
ExpectedAsset(cfg) == IF Truthy(cfg.asset) THEN cfg.asset ELSE "USDC"

\* receipt.metadata?.jobId || receipt.jobId
JobIdOf_TopLevelFirst(r) ==
  IF Truthy(r.jobId)
    THEN r.jobId
    ELSE IF r.metadata.present THEN r.metadata.jobId ELSE Null
JobIdOf(r) ==
  IF r.metadata.present /\ Truthy(r.metadata.jobId)
    THEN r.metadata.jobId
    ELSE r.jobId

\* return { success: false, error: receipt.reason }
InvalidOutcome_Raises(r) == [kind |-> "raised", error |-> Err(r.reason, "verify")]
InvalidOutcome(r) ==
  [kind |-> "returned", success |-> FALSE, error |-> r.reason]

\* return { success: true, jobId, result }
SuccessOutcome(id, res) ==
  [kind |-> "returned", success |-> TRUE, jobId |-> id, result |-> res]

CompletedEntry(id, h, t, res) ==
  [jobId |-> id, txHash |-> h, status |-> "completed", timestamp |-> t,
   result |-> res]
FailedEntry(h, e) == [txHash |-> h, status |-> "failed", error |-> e.message]

\* The audit sink's answer to one logAudit(entry): the entry is recorded or
\* not, and the call returns or raises
Record(log, entry, written) == IF written THEN Append(log, entry) ELSE log

ProcessorIdle ==
  /\ pc = "idle"
  /\ calls = 0
  /\ txHash = Null
  /\ jobConfig = [amount |-> Null, asset |-> Null]
  /\ receipt = NoReceipt
  /\ jobId = Null
  /\ result = Null
  /\ job = "none"
  /\ timer = "none"
  /\ error = NoError
  /\ outcome = NoOutcome
  /\ auditLog = <<>>
  /\ logStart = 0
  /\ trace = <<>>

\* processPaymentRequest(txHash, jobConfig) is called
Start ==
  /\ pc \in {"idle", "done"}
  /\ calls < MaxCalls
  /\ \E h \in TxHashes, cfg \in JobConfigs :
       /\ txHash' = h
       /\ jobConfig' = cfg
  /\ calls' = calls + 1
  /\ pc' = "verify"
  /\ receipt' = NoReceipt
  /\ jobId' = Null
  /\ result' = Null
  /\ job' = "none"
  /\ timer' = "none"
  /\ error' = NoError
  /\ outcome' = NoOutcome
  /\ logStart' = Len(auditLog)
  /\ trace' = <<"call">>
  /\ UNCHANGED <<auditLog, outsideProcessor>>

\* await this.verifier.verify(...) returns; lines 30-48 run up to the await
\* of getJob
Verify ==
  /\ pc = "verify"
  /\ \E f \in Fetches(txHash), t \in Times :
       LET r == verify([txHash |-> txHash,
                        expectedAmount |-> jobConfig.amount,
                        expectedAsset |-> ExpectedAsset(jobConfig)], f, t)
       IN /\ receipt' = r
          /\ IF ~r.valid
               THEN /\ outcome' = InvalidOutcome(r)
                    /\ pc' = "done"
                    /\ trace' = trace \o <<"verify", "return">>
                    /\ UNCHANGED <<jobId, error>>
             ELSE IF ~Truthy(JobIdOf(r))
               THEN /\ jobId' = Null
                    /\ error' = ErrNoJobId
                    /\ pc' = "catch"
                    /\ trace' = trace \o <<"verify", "throw">>
                    /\ UNCHANGED outcome
             ELSE /\ jobId' = JobIdOf(r)
                  /\ pc' = "getJob"
                  /\ trace' = trace \o <<"verify", "getJob">>
                  /\ UNCHANGED <<outcome, error>>
  /\ UNCHANGED <<calls, txHash, jobConfig, result, job, timer, auditLog,
                 logStart, outsideProcessor>>

\* executeJob lines 84-96: setContext, job.run(), setTimeout, then the await
\* of the race between the two
RunJob_NotAwaited ==
  /\ job' = "running"
  /\ timer' = "armed"
  /\ pc' = "audit"
  /\ trace' = trace \o <<"setContext", "run", "setTimeout">>
  /\ UNCHANGED error
RunJob ==
  /\ job' = "running"
  /\ timer' = "armed"
  /\ pc' = "race"
  /\ trace' = trace \o <<"setContext", "run", "setTimeout">>
  /\ UNCHANGED error

\* await this.getJob(jobId) settles: a job handle, nothing, or an error
GetJob ==
  /\ pc = "getJob"
  /\ \/ RunJob
     \/ /\ error' = ErrJobNotFound(jobId)
        /\ pc' = "catch"
        /\ trace' = Append(trace, "throw")
        /\ UNCHANGED <<job, timer>>
     \/ /\ \E e \in RegistryErrors : error' = e
        /\ pc' = "catch"
        /\ trace' = Append(trace, "throw")
        /\ UNCHANGED <<job, timer>>
  /\ UNCHANGED <<calls, txHash, jobConfig, receipt, jobId, result, outcome,
                 auditLog, logStart, outsideProcessor>>

\* job.run() resolves.  The race is won only if it is still awaited.
JobCompletes ==
  /\ job = "running"
  /\ job' = "completed"
  /\ IF pc = "race"
       THEN /\ \E res \in Results : result' = res
            /\ pc' = "audit"
            /\ trace' = Append(trace, "jobCompleted")
       ELSE UNCHANGED <<result, pc, trace>>
  /\ UNCHANGED <<calls, txHash, jobConfig, receipt, jobId, timer, error,
                 outcome, auditLog, logStart, outsideProcessor>>

\* job.run() rejects
JobFails ==
  /\ job = "running"
  /\ job' = "failed"
  /\ IF pc = "race"
       THEN /\ \E e \in RunErrors : error' = e
            /\ pc' = "catch"
            /\ trace' = Append(trace, "jobFailed")
       ELSE UNCHANGED <<error, pc, trace>>
  /\ UNCHANGED <<calls, txHash, jobConfig, receipt, jobId, result, timer,
                 outcome, auditLog, logStart, outsideProcessor>>

\* The 300000 ms timer fires and rejects its promise; nothing clears the
\* timer, and nothing stops the job
TimerFires ==
  /\ timer = "armed"
  /\ timer' = "fired"
  /\ IF pc = "race"
       THEN /\ error' = ErrJobTimeout
            /\ pc' = "catch"
            /\ trace' = Append(trace, "jobTimeout")
       ELSE UNCHANGED <<error, pc, trace>>
  /\ UNCHANGED <<calls, txHash, jobConfig, receipt, jobId, result, job,
                 outcome, auditLog, logStart, outsideProcessor>>

\* await this.logAudit({jobId, txHash, status: 'completed', ...}) settles
\* (lines 51-59); when it raises, the catch block is entered
AuditCompleted ==
  /\ pc = "audit"
  /\ \E written \in BOOLEAN, t \in Times :
       auditLog' = Record(auditLog, CompletedEntry(jobId, txHash, t, result),
                          written)
  /\ \/ /\ outcome' = SuccessOutcome(jobId, result)
        /\ pc' = "done"
        /\ trace' = trace \o <<"logAudit", "return">>
        /\ UNCHANGED error
     \/ /\ \E e \in AuditErrors : error' = e
        /\ pc' = "catch"
        /\ trace' = trace \o <<"logAudit", "throw">>
        /\ UNCHANGED outcome
  /\ UNCHANGED <<calls, txHash, jobConfig, receipt, jobId, result, job,
                 timer, logStart, outsideProcessor>>

\* The catch block (lines 60-68): await this.logAudit({txHash,
\* status: 'failed', error}) settles, then throw error; when logAudit raises,
\* its error leaves the call instead
Catch ==
  /\ pc = "catch"
  /\ \E written \in BOOLEAN :
       auditLog' = Record(auditLog, FailedEntry(txHash, error), written)
  /\ \/ outcome' = [kind |-> "raised", error |-> error]
     \/ \E e \in AuditErrors : outcome' = [kind |-> "raised", error |-> e]
  /\ pc' = "done"
  /\ trace' = trace \o <<"logAudit", "raise">>
  /\ UNCHANGED <<calls, txHash, jobConfig, receipt, jobId, result, job,
                 timer, error, logStart, outsideProcessor>>

ProcessorNext ==
  \/ Start
  \/ Verify
  \/ GetJob
  \/ JobCompletes
  \/ JobFails
  \/ TimerFires
  \/ AuditCompleted
  \/ Catch

(***************************************************************************)
(* BridgeLayer                                                             *)
(***************************************************************************)
ReasonMissingHeader == "Missing X-402-Payment header"
ReasonMultiSigFailed == "Multi-sig verification failed"

\* Values of the X-402-Payment header
Headers == {"0.5 USDC", "0.50 USDC", "0.5", "2 ETH", "abc USDC"}

\* header.split(' ')
Split(h) ==
  CASE h = "0.5 USDC" -> <<"0.5", "USDC">>
    [] h = "0.50 USDC" -> <<"0.50", "USDC">>
    [] h = "0.5" -> <<"0.5">>
    [] h = "2 ETH" -> <<"2", "ETH">>
    [] OTHER -> <<"abc", "USDC">>

\* parseFloat(amount); the number is written in its shortest decimal form
ParseFloat(a) ==
  CASE a \in {"0.5", "0.50"} -> "0.5"
    [] a = "2" -> "2"
    [] OTHER -> "NaN"

\* parsePaymentHeader(header) at time t: the object has the fields amount,
\* asset and timestamp, and no other
parsePaymentHeader(h, t) ==
  LET parts == Split(h)
      asset == IF Len(parts) >= 2 THEN parts[2] ELSE Null
  IN [amount |-> ParseFloat(parts[1]),
      asset |-> IF Truthy(asset) THEN asset ELSE "USDC",
      timestamp |-> t]

\* payment.requiresMultiSig: undefined, hence false, on an object without
\* that field
RequiresMultiSig(p) ==
  IF "requiresMultiSig" \in DOMAIN p THEN p.requiresMultiSig ELSE FALSE

Requests == [header : Headers \cup {Null}, requiresMultiSig : BOOLEAN]
NoRequest == [header |-> Null, requiresMultiSig |-> FALSE]
NoPayment == [amount |-> Null, asset |-> Null, timestamp |-> 0]
NoVerification == [valid |-> FALSE, reason |-> Null]

\* What verifyOnChain(payment) can resolve to
OnChainReasons == {"Payment not found on chain", "Insufficient amount"}
OnChainResults(p) ==
  { [valid |-> TRUE, payment |-> p] } \cup
  { [valid |-> FALSE, reason |-> r] : r \in OnChainReasons }

\* return { valid: false, reason: 'Missing X-402-Payment header' }
MissingHeaderResult_Accepts == [valid |-> TRUE, reason |-> ReasonMissingHeader]
MissingHeaderResult == [valid |-> FALSE, reason |-> ReasonMissingHeader]

BridgeIdle ==
  /\ bpc = "idle"
  /\ request = NoRequest
  /\ payment = NoPayment
  /\ verification = NoVerification
  /\ bresult = NoVerification
  /\ btrace = <<>>
  /\ spc = "idle"
  /\ spayment = NoPayment
  /\ gasEstimate = 0
  /\ settlementTx = [hash |-> Null, timestamp |-> 0]
  /\ sresult = [success |-> FALSE]
  /\ serror = NoError
  /\ strace = <<>>

settleVars == <<spc, spayment, gasEstimate, settlementTx, sresult, serror,
                strace>>
requestVars == <<bpc, request, payment, verification, bresult, btrace>>

\* verifyRequest(request) is called and runs up to the await of
\* verifyOnChain (lines 19-32)
VerifyRequest ==
  /\ bpc = "idle"
  /\ \E req \in Requests, t \in Times :
       /\ request' = req
       /\ IF ~Truthy(req.header)
            THEN /\ bresult' = MissingHeaderResult
                 /\ bpc' = "returned"
                 /\ btrace' = <<"return">>
                 /\ UNCHANGED payment
            ELSE /\ payment' = parsePaymentHeader(req.header, t)
                 /\ bpc' = "onChain"
                 /\ btrace' = <<"parsePaymentHeader", "verifyOnChain">>
                 /\ UNCHANGED bresult
  /\ UNCHANGED <<verification, settleVars, outsideBridge>>

\* await this.verifyOnChain(payment) resolves; lines 34-53 run to the end.
\* The await of verifyMultiSig is inside this step: it is reached only when
\* payment.requiresMultiSig is true.
OnChainAnswers ==
  /\ bpc = "onChain"
  /\ \E v \in OnChainResults(payment) :
       /\ verification' = v
       /\ IF ~v.valid
            THEN /\ bresult' = v
                 /\ btrace' = Append(btrace, "return")
          ELSE IF RequiresMultiSig(payment)
            THEN \E multiSigValid \in BOOLEAN :
                   /\ bresult' =
                        IF multiSigValid
                          THEN [valid |-> TRUE, payment |-> payment,
                                verification |-> v]
                          ELSE [valid |-> FALSE, reason |-> ReasonMultiSigFailed]
                   /\ btrace' = btrace \o <<"verifyMultiSig", "return">>
          ELSE /\ bresult' = [valid |-> TRUE, payment |-> payment,
                              verification |-> v]
               /\ btrace' = Append(btrace, "return")
  /\ bpc' = "returned"
  /\ UNCHANGED <<request, payment, settleVars, outsideBridge>>

\* await this.verifyOnChain(payment) rejects: the error leaves verifyRequest
OnChainFaults ==
  /\ bpc = "onChain"
  /\ bpc' = "raised"
  /\ btrace' = Append(btrace, "raise")
  /\ UNCHANGED <<request, payment, verification, bresult, settleVars,
                 outsideBridge>>

\* Arguments of automateSettlement
SettlePayments == [amount : {"0.5", "2"}, asset : {"USDC"}, timestamp : Times]
GasEstimates == {21, 50}
SettlementHashes == {"0xs1", "0xs2"}

\* Errors of the three awaited steps
ErrEstimate == Err("gas estimation failed", "estimate")
ErrExecute == Err("settlement reverted", "executeSettlement")
ErrWait == Err("settlement not confirmed", "waitForSettlement")

\* latency: receipt.timestamp - payment.timestamp
Latency_FromSubmission(r, p) == p.timestamp - r.timestamp
Latency(r, p) == r.timestamp - p.timestamp

\* catch (error) { console.error(...); throw error }
SettlementFails(e, step) ==
  /\ serror' = e
  /\ spc' = "raised"
  /\ strace' = strace \o <<step, "fail", "raise">>

\* automateSettlement(payment) is called and awaits gasOptimizer.estimate
AutomateSettlement ==
  /\ spc = "idle"
  /\ \E p \in SettlePayments : spayment' = p
  /\ spc' = "estimate"
  /\ UNCHANGED <<gasEstimate, settlementTx, sresult, serror, strace,
                 requestVars, outsideBridge>>

\* const gasEstimate = await this.gasOptimizer.estimate(payment)
Estimate ==
  /\ spc = "estimate"
  /\ \/ /\ \E g \in GasEstimates : gasEstimate' = g
        /\ spc' = "execute"
        /\ strace' = Append(strace, "estimate")
        /\ UNCHANGED serror
     \/ /\ SettlementFails(ErrEstimate, "estimate")
        /\ UNCHANGED gasEstimate
  /\ UNCHANGED <<spayment, settlementTx, sresult, requestVars, outsideBridge>>

\* const settlementTx = await this.executeSettlement({...payment, gasEstimate})
ExecuteSettlement ==
  /\ spc = "execute"
  /\ \/ /\ \E h \in SettlementHashes, t \in Times :
             settlementTx' = [hash |-> h, timestamp |-> t]
        /\ spc' = "wait"
        /\ strace' = Append(strace, "executeSettlement")
        /\ UNCHANGED serror
     \/ /\ SettlementFails(ErrExecute, "executeSettlement")
        /\ UNCHANGED settlementTx
  /\ UNCHANGED <<spayment, gasEstimate, sresult, requestVars, outsideBridge>>

\* const receipt = await this.waitForSettlement(settlementTx.hash), then the
\* return of lines 73-78
WaitForSettlement ==
  /\ spc = "wait"
  /\ \/ /\ \E t \in Times :
             LET r == [hash |-> settlementTx.hash, confirmed |-> TRUE,
                       timestamp |-> t]
             IN sresult' = [success |-> TRUE, txHash |-> settlementTx.hash,
                            receipt |-> r, latency |-> Latency(r, spayment)]
        /\ spc' = "returned"
        /\ strace' = strace \o <<"waitForSettlement", "return">>
        /\ UNCHANGED serror
     \/ /\ SettlementFails(ErrWait, "waitForSettlement")
        /\ UNCHANGED sresult
  /\ UNCHANGED <<spayment, gasEstimate, settlementTx, requestVars,
                 outsideBridge>>

BridgeNext ==
  \/ VerifyRequest
  \/ OnChainAnswers
  \/ OnChainFaults
  \/ AutomateSettlement
  \/ Estimate
  \/ ExecuteSettlement
  \/ WaitForSettlement

(***************************************************************************)
(* AgentWallet.waitForConfirmation                                         *)
(*                                                                         *)
(* Time is in milliseconds.  An option that is undefined or 0 holds 0,     *)
(* which "options.x || default" reads as false.  The transaction hash is   *)
(* fixed; every receipt the ledger answers with is for that hash.          *)
(***************************************************************************)
DefaultConfirmations == 1
DefaultMaxWait == 120000
PollInterval == 2000
MaxConfirmations == 2
ShortTimeout == 3000
LookupDelay == 1000

WaitOptions == [confirmations : 0..MaxConfirmations,
                timeout : {0, ShortTimeout}]
NoWaitOptions == [confirmations |-> 0, timeout |-> 0]

\* const confirmations = options.confirmations || 1
Confirmations(o) ==
  IF o.confirmations # 0 THEN o.confirmations ELSE DefaultConfirmations

\* const maxWait = options.timeout || 120000
MaxWait(o) == IF o.timeout # 0 THEN o.timeout ELSE DefaultMaxWait

\* What getTransactionReceipt can resolve to: null, or a receipt with or
\* without a status of its own
WalletTx == "0xabc"
NoAnswer == [found |-> FALSE]
LedgerAnswers ==
  {NoAnswer} \cup
  { [hash |-> WalletTx, confirmations |-> c] : c \in 0..MaxConfirmations } \cup
  { [hash |-> WalletTx, confirmations |-> c, status |-> st] :
      c \in 0..MaxConfirmations, st \in {"confirmed", "failed"} }

\* receipt && receipt.confirmations >= confirmations
Confirmed_Strict(r, n) == r # NoAnswer /\ r.confirmations > n
Confirmed(r, n) == r # NoAnswer /\ r.confirmations >= n

\* { ...a, ...b }: the fields of b win
Spread(a, b) ==
  [k \in DOMAIN a \cup DOMAIN b |-> IF k \in DOMAIN b THEN b[k] ELSE a[k]]

\* { status: 'confirmed', ...receipt }
ConfirmedReceipt(r) == Spread([status |-> "confirmed"], r)

ErrConfirmationTimeout ==
  Err("Transaction confirmation timeout", "waitForConfirmation")
ErrLookup == Err("ECONNREFUSED", "getTransactionReceipt")

WalletIdle ==
  /\ wpc = "idle"
  /\ wopts = NoWaitOptions
  /\ wclock = 0
  /\ startTime = 0
  /\ polls = 0
  /\ lastAnswer = NoAnswer
  /\ wresult = NoAnswer
  /\ werror = NoError

\* while (Date.now() - startTime < maxWait)
WithinDeadline(t, o) == t - startTime < MaxWait(o)

\* waitForConfirmation(txHash, options) is called: lines 202-205, the first
\* test of the loop, which holds for every positive maxWait, and the call of
\* getTransactionReceipt
WaitForConfirmation ==
  /\ wpc = "idle"
  /\ \E o \in WaitOptions : wopts' = o
  /\ \E t \in {0, LookupDelay} :
       /\ wclock' = t
       /\ startTime' = t
  /\ wpc' = "lookup"
  /\ UNCHANGED <<polls, lastAnswer, wresult, werror, outsideWallet>>

\* await this.getTransactionReceipt(txHash) resolves, lines 207-215
LookupAnswers ==
  /\ wpc = "lookup"
  /\ \E r \in LedgerAnswers, d \in {0, LookupDelay} :
       /\ wclock' = wclock + d
       /\ lastAnswer' = r
       /\ polls' = polls + 1
       /\ IF Confirmed(r, Confirmations(wopts))
            THEN /\ wresult' = ConfirmedReceipt(r)
                 /\ wpc' = "returned"
            ELSE /\ wpc' = "sleep"
                 /\ UNCHANGED wresult
  /\ UNCHANGED <<wopts, startTime, werror, outsideWallet>>

\* await this.getTransactionReceipt(txHash) rejects: the error leaves
\* waitForConfirmation
LookupFaults ==
  /\ wpc = "lookup"
  /\ werror' = ErrLookup
  /\ polls' = polls + 1
  /\ wpc' = "raised"
  /\ UNCHANGED <<wopts, wclock, startTime, lastAnswer, wresult, outsideWallet>>

\* the ledger never settles the promise of getTransactionReceipt; the await
\* at line 207 has no deadline of its own
LookupNeverAnswers ==
  /\ wpc = "lookup"
  /\ polls' = polls + 1
  /\ wpc' = "hung"
  /\ UNCHANGED <<wopts, wclock, startTime, lastAnswer, wresult, werror,
                 outsideWallet>>

\* the timer of line 218 fires, then the test of the loop: another lookup, or
\* the throw of line 221
PollTimerFires ==
  /\ wpc = "sleep"
  /\ wclock' = wclock + PollInterval
  /\ IF WithinDeadline(wclock', wopts)
       THEN /\ wpc' = "lookup"
            /\ UNCHANGED werror
       ELSE /\ wpc' = "raised"
            /\ werror' = ErrConfirmationTimeout
  /\ UNCHANGED <<wopts, startTime, polls, lastAnswer, wresult, outsideWallet>>

WalletNext ==
  \/ WaitForConfirmation
  \/ LookupAnswers
  \/ LookupFaults
  \/ LookupNeverAnswers
  \/ PollTimerFires

(***************************************************************************)
(* ProofEngine                                                             *)
(*                                                                         *)
(* A JavaScript value is a record [t, v]: its type and its text.  A number *)
(* holds its decimal text, or NaN; an object {jobId: j} holds j, and an    *)
(* object {jobId: j, service: s} holds the service too.                    *)
(***************************************************************************)
Str(x) == [t |-> "string", v |-> x]
Num(x) == [t |-> "number", v |-> x]
Obj(x) == [t |-> "object", v |-> x]
Meta(x, sv) == [t |-> "object", v |-> x, service |-> sv]
JsNull == [t |-> "null", v |-> "null"]
Undefined == [t |-> "undefined", v |-> "undefined"]

\* The fields of proofData, in the order the object literal lists them
DataKeys ==
  <<"txHash", "timestamp", "amount", "asset", "from", "to", "metadata">>

\* JSON.stringify of one value: a number that is not finite is written null
ToJSON(x) ==
  CASE x.t = "string" -> "\"" \o x.v \o "\""
    [] x.t = "number" -> IF x.v = "NaN" THEN "null" ELSE x.v
    [] x.t = "object" ->
         "{\"jobId\":\"" \o x.v \o "\"" \o
         (IF "service" \in DOMAIN x
            THEN ",\"service\":\"" \o x.service \o "\"" ELSE "") \o "}"
    [] OTHER -> "null"

\* the members of JSON.stringify(data): a field that is undefined is left out
RECURSIVE Members(_, _)
Members(data, keys) ==
  IF keys = <<>> THEN ""
  ELSE LET k == Head(keys)
           rest == Members(data, Tail(keys))
       IN IF data[k] = Undefined THEN rest
          ELSE "\"" \o k \o "\":" \o ToJSON(data[k]) \o
               (IF rest = "" THEN "" ELSE "," \o rest)

\* const jsonString = JSON.stringify(data)
Stringify(data) == "{" \o Members(data, DataKeys) \o "}"

\* crypto.subtle.digest('SHA-256', ...) in hex: SHA-256 is taken to be free
\* of collisions, so the digest stands for the text it was computed from
Sha256(text) == "sha256(" \o text \o ")"

\* hashProof(data) raises unless this.algorithm === 'sha256'
Supported(alg) == alg = "sha256"
ErrUnsupported(alg) == Err("Unsupported algorithm: " \o alg, "hashProof")

\* hashProof(data), for a supported algorithm
hashProof(data) == Sha256(Stringify(data))

\* signProof(data, signer): sig_ and the leading hex digits of the hash
signProof(data) == "sig_" \o hashProof(data)

\* verifySignature(data, signature)
verifySignature_Rejects(data, signature) == FALSE
verifySignature(data, signature) == TRUE

\* Arguments of generateProof
Transactions ==
  [hash : {Str("0xabc")},
   timestamp : {Num(ToString(n)) : n \in Times},
   amount : {Num("0.5"), Num("2"), Num("NaN")},
   asset : {Str("USDC"), Undefined},
   from : {Str("0xA")},
   to : {Str("0xB")},
   metadata : {Obj("job-1"), Meta("job-1", "render"), Undefined},
   signer : BOOLEAN]

\* const proofData = { txHash: transaction.hash, ... }
ProofData(tx) ==
  [txHash |-> tx.hash, timestamp |-> tx.timestamp, amount |-> tx.amount,
   asset |-> tx.asset, from |-> tx.from, to |-> tx.to,
   metadata |-> tx.metadata]

\* const proof = { hash, signature, algorithm, timestamp, data }
ProofOf(tx, alg, t) ==
  [hash |-> hashProof(ProofData(tx)),
   signature |-> IF tx.signer THEN signProof(ProofData(tx)) ELSE Null,
   algorithm |-> alg,
   timestamp |-> t,
   data |-> ProofData(tx)]

NoProof ==
  [hash |-> Null, signature |-> Null, algorithm |-> Null, timestamp |-> 0,
   data |-> [k \in {DataKeys[i] : i \in DOMAIN DataKeys} |-> Undefined]]

\* Values a caller can write into a field of proof.data
FieldValues(k) ==
  CASE k = "txHash" -> {Str("0xabc"), Str("0xdef")}
    [] k = "timestamp" -> {Num(ToString(n)) : n \in Times} \cup {Num("0")}
    [] k = "amount" -> {Num("0.5"), Num("2"), Num("NaN"), JsNull}
    [] k = "asset" -> {Str("USDC"), Str("ETH"), Undefined}
    [] k = "from" -> {Str("0xA"), Str("0xE")}
    [] k = "to" -> {Str("0xB"), Str("0xE")}
    [] OTHER -> {Obj("job-1"), Obj("job-2"), Meta("job-1", "render"),
                 Undefined}

\* How verifyProof(p) ends on an engine with algorithm alg
VerdictOf(p, alg) ==
  IF ~Supported(alg) THEN "raised"
  ELSE IF hashProof(p.data) # p.hash THEN "false"
  ELSE IF Truthy(p.signature) /\ ~verifySignature(p.data, p.signature)
    THEN "false"
  ELSE "true"

EngineNew ==
  /\ epc = "new"
  /\ algorithm = Null
  /\ proofStorage = FALSE
  /\ stored = <<>>
  /\ issued = NoProof
  /\ proof = NoProof
  /\ presented = NoProof
  /\ verdict = "none"
  /\ eerror = NoError

\* new ProofEngine(config): this.algorithm = config.algorithm || 'sha256'
Construct ==
  /\ epc = "new"
  /\ \E a \in {Null, "sha256", "sha512"} :
       algorithm' = IF Truthy(a) THEN a ELSE "sha256"
  /\ proofStorage' \in BOOLEAN
  /\ epc' = "ready"
  /\ UNCHANGED <<stored, issued, proof, presented, verdict, eerror,
                 outsideEngine>>

\* generateProof(transaction) runs to its return, or raises from hashProof
\* or from proofStorage.store
GenerateProof ==
  /\ epc = "ready"
  /\ \E tx \in Transactions, t \in Times, storeFails \in BOOLEAN :
       IF ~Supported(algorithm)
         THEN /\ eerror' = ErrUnsupported(algorithm)
              /\ epc' = "failed"
              /\ UNCHANGED <<stored, issued, proof>>
       ELSE IF proofStorage /\ storeFails
         THEN /\ eerror' = Err("store failed", "proofStorage.store")
              /\ epc' = "failed"
              /\ UNCHANGED <<stored, issued, proof>>
       ELSE /\ issued' = ProofOf(tx, algorithm, t)
            /\ proof' = issued'
            /\ stored' = IF proofStorage THEN Append(stored, issued')
                         ELSE stored
            /\ epc' = "holding"
            /\ UNCHANGED eerror
  /\ UNCHANGED <<algorithm, proofStorage, presented, verdict, outsideEngine>>

\* The caller holds a proof that another engine, one that hashes with
\* SHA-256, generated
ObtainProof ==
  /\ epc = "ready"
  /\ \E tx \in Transactions, t \in Times : proof' = ProofOf(tx, "sha256", t)
  /\ epc' = "holding"
  /\ UNCHANGED <<algorithm, proofStorage, stored, issued, presented, verdict,
                 eerror, outsideEngine>>

\* The caller writes a different value into one field of proof.data
ChangeField ==
  /\ epc = "holding"
  /\ proof = issued
  /\ \E i \in DOMAIN DataKeys :
       \E x \in FieldValues(DataKeys[i]) \ {proof.data[DataKeys[i]]} :
         proof' = [proof EXCEPT !.data[DataKeys[i]] = x]
  /\ UNCHANGED <<epc, algorithm, proofStorage, stored, issued, presented,
                 verdict, eerror, outsideEngine>>

\* verifyProof(proof) runs to its return, or raises from hashProof
VerifyProof ==
  /\ epc = "holding"
  /\ presented' = proof
  /\ verdict' = VerdictOf(proof, algorithm)
  /\ eerror' = IF Supported(algorithm) THEN eerror
               ELSE ErrUnsupported(algorithm)
  /\ epc' = "verified"
  /\ UNCHANGED <<algorithm, proofStorage, stored, issued, proof,
                 outsideEngine>>

EngineNext ==
  \/ Construct
  \/ GenerateProof
  \/ ObtainProof
  \/ ChangeField
  \/ VerifyProof

(***************************************************************************)
(* ProofEngine.generateAuditSummary                                        *)
(*                                                                         *)
(* A number is a record [nan, inf, x]: NaN, Infinity, or the finite value  *)
(* x counted in hundredths.  The amounts used are sums of 0.5 and 2, which *)
(* floating point adds without rounding.                                   *)
(***************************************************************************)
MaxProofs == 2

Finite(x) == [nan |-> FALSE, inf |-> FALSE, x |-> x]
NaN == [nan |-> TRUE, inf |-> FALSE, x |-> 0]
Infinity == [nan |-> FALSE, inf |-> TRUE, x |-> 0]

\* a + b
Add(a, b) ==
  IF a.nan \/ b.nan THEN NaN
  ELSE IF a.inf \/ b.inf THEN Infinity
  ELSE Finite(a.x + b.x)

\* a < b, which is false as soon as one side is NaN
Less(a, b) ==
  /\ ~a.nan
  /\ ~b.nan
  /\ ~a.inf
  /\ (b.inf \/ a.x < b.x)

\* the number parseFloat(amount) yields
NumberOf(amount) ==
  LET text == ParseFloat(amount)
  IN CASE text = "0.5" -> Finite(50)
       [] text = "2" -> Finite(200)
       [] OTHER -> NaN

\* summary.assets[asset] || 0: undefined, 0 and NaN all read as false
OrZero(f, k) ==
  IF k \notin DOMAIN f THEN Finite(0)
  ELSE IF f[k].nan THEN Finite(0)
  ELSE f[k]

\* summary.services[service] || 0
CountOrZero(f, k) == IF k \in DOMAIN f THEN f[k] ELSE 0

\* obj[k] = x
Put(f, k, x) == [j \in DOMAIN f \cup {k} |-> IF j = k THEN x ELSE f[j]]

\* The proofs handed to generateAuditSummary; only the fields of proof.data
\* that it reads
SummaryProofs ==
  [amount : {"0.5", "2", "abc"}, asset : {"USDC", "ETH"},
   service : {Null, "render"}, timestamp : Times]
RECURSIVE ListsUpTo(_, _)
ListsUpTo(S, n) ==
  IF n = 0 THEN {<<>>}
  ELSE LET shorter == ListsUpTo(S, n - 1)
       IN shorter \cup {Append(l, x) : l \in shorter, x \in S}

\* const summary = { totalTransactions: proofs.length, totalAmount: 0, ... }
EmptySummary_ZeroStart(n) ==
  [totalTransactions |-> n, totalAmount |-> Finite(0), assets |-> <<>>,
   services |-> <<>>, timeRange |-> [start |-> Finite(0), end |-> Finite(0)]]
EmptySummary(n) ==
  [totalTransactions |-> n, totalAmount |-> Finite(0), assets |-> <<>>,
   services |-> <<>>, timeRange |-> [start |-> Infinity, end |-> Finite(0)]]

\* the body of proofs.forEach, for one proof
SummaryStep(s, p) ==
  LET amount == NumberOf(p.amount)
      timestamp == Finite(p.timestamp)
  IN [totalTransactions |-> s.totalTransactions,
      totalAmount |-> Add(s.totalAmount, amount),
      assets |-> Put(s.assets, p.asset, Add(OrZero(s.assets, p.asset), amount)),
      services |->
        IF Truthy(p.service)
          THEN Put(s.services, p.service, CountOrZero(s.services, p.service) + 1)
          ELSE s.services,
      timeRange |->
        [start |-> IF Less(timestamp, s.timeRange.start) THEN timestamp
                   ELSE s.timeRange.start,
         end |-> IF Less(s.timeRange.end, timestamp) THEN timestamp
                 ELSE s.timeRange.end]]

RECURSIVE SummaryFold(_, _)
SummaryFold(s, proofs) ==
  IF proofs = <<>> THEN s
  ELSE SummaryFold(SummaryStep(s, Head(proofs)), Tail(proofs))

\* generateAuditSummary(proofs)
generateAuditSummary(proofs) == SummaryFold(EmptySummary(Len(proofs)), proofs)

SummaryIdle ==
  /\ sumpc = "idle"
  /\ proofsIn = <<>>
  /\ summary = EmptySummary(0)

\* generateAuditSummary(proofs) is called and returns
GenerateAuditSummary ==
  /\ sumpc = "idle"
  /\ \E proofs \in ListsUpTo(SummaryProofs, MaxProofs) :
       /\ proofsIn' = proofs
       /\ summary' = generateAuditSummary(proofs)
  /\ sumpc' = "returned"
  /\ UNCHANGED outsideSummary

SummaryNext == GenerateAuditSummary

(***************************************************************************)
(* generateAuditSummary on a proof that generateProof issued               *)
(***************************************************************************)
\* const { amount, asset, service, timestamp } = proof.data: a field that
\* proof.data does not have is undefined, and a property key is the text of
\* the value
DataRead(data) ==
  [amount |-> data.amount.v,
   asset |-> data.asset.v,
   service |-> IF "service" \in DOMAIN data THEN data.service.v ELSE Null,
   timestamp |-> CHOOSE n \in Times : ToString(n) = data.timestamp.v]

\* generateAuditSummary([proof]) is called with the proof this engine issued
SummarizeIssued ==
  /\ epc = "holding"
  /\ sumpc = "idle"
  /\ proofsIn' = <<DataRead(issued.data)>>
  /\ summary' = generateAuditSummary(proofsIn')
  /\ sumpc' = "returned"
  /\ UNCHANGED <<engineVars, verifierVars, processorVars, bridgeVars,
                 walletVars, splitVars, meshVars, orchestratorVars>>

AuditNext ==
  \/ Construct
  \/ GenerateProof
  \/ SummarizeIssued

(***************************************************************************)
(* AgentMesh.splitPayment                                                  *)
(*                                                                         *)
(* Amounts are counted in millionths, the precision of toFixed(6).  A      *)
(* recipient is an object with a share and either the field to or the      *)
(* field address.                                                          *)
(***************************************************************************)
MaxRecipients == 3
FullShare == 100
Millionth == 1000000
FixedDigits == 6

Addresses == {"A", "B"}
Shares == {20, 40, 60, 100}
SplitRecipients ==
  [to : Addresses, share : Shares] \cup [address : Addresses, share : Shares]
\* payments of 100 and of 0.000001
SplitPayments == [amount : {100 * Millionth, 1}, asset : {"USDC", "ETH"}]
NoSplitPayment == [amount |-> 0, asset |-> Null]

\* obj.k, which is undefined when obj has no field k
Field(obj, k) == IF k \in DOMAIN obj THEN obj[k] ELSE Null

\* recipients.reduce((sum, r) => sum + r.share, 0)
RECURSIVE totalShares(_)
totalShares(rs) ==
  IF rs = <<>> THEN 0 ELSE totalShares(SubSeq(rs, 1, Len(rs) - 1)) + rs[Len(rs)].share

\* totalShares === 100
ValidShares_AtMost(rs) == totalShares(rs) <= FullShare
ValidShares(rs) == totalShares(rs) = FullShare

\* the decimal text of n, at least d digits long
RECURSIVE Digits(_, _)
Digits(n, d) ==
  IF d <= 1 /\ n < 10 THEN ToString(n)
  ELSE Digits(n \div 10, d - 1) \o ToString(n % 10)

\* (payment.amount * recipient.share / 100).toFixed(6): the quotient in
\* millionths, rounded to the nearest millionth.  The amount is taken apart
\* as FullShare * whole + rest to keep the products small.
RoundedShare(amount, share) ==
  LET whole == amount \div FullShare
      rest == amount % FullShare
  IN whole * share + (2 * rest * share + FullShare) \div (2 * FullShare)
ToFixed(amount, share) ==
  LET rounded == RoundedShare(amount, share)
  IN ToString(rounded \div Millionth) \o "." \o
     Digits(rounded % Millionth, FixedDigits)

\* the object of lines 49-54 for one recipient
SplitFor(p, r) ==
  [to |-> Field(r, "address"),
   amount |-> ToFixed(p.amount, r.share),
   asset |-> p.asset,
   memo |-> "Payment split: " \o ToString(r.share) \o "%"]

\* executePayment(split) resolves to { success: true, ...payment }
PaymentResult(split) ==
  [success |-> TRUE, to |-> split.to, amount |-> split.amount,
   asset |-> split.asset, memo |-> split.memo]

ErrShares == Err("Payment shares must total 100%", "splitPayment")
ErrTransfer(i) == Err("transfer failed", ToString(i))
NoSplitResult == [originalAmount |-> 0, splits |-> <<>>, timestamp |-> 0]

SplitIdle ==
  /\ splitpc = "idle"
  /\ splitOf = NoSplitPayment
  /\ recipients = <<>>
  /\ transfers = <<>>
  /\ settled = <<>>
  /\ splitResult = NoSplitResult
  /\ splitError = NoError

\* splitPayment(payment, recipients) is called: the test of the shares, then
\* splits.map(split => this.executePayment(split)) starts every transfer,
\* then the await of Promise.all
SplitPayment ==
  /\ splitpc = "idle"
  /\ \E p \in SplitPayments, rs \in ListsUpTo(SplitRecipients, MaxRecipients) :
       /\ splitOf' = p
       /\ recipients' = rs
       /\ IF ~ValidShares(rs)
            THEN /\ splitError' = ErrShares
                 /\ splitpc' = "raised"
                 /\ UNCHANGED <<transfers, settled>>
            ELSE /\ transfers' = [i \in 1..Len(rs) |-> SplitFor(p, rs[i])]
                 /\ settled' = [i \in 1..Len(rs) |-> "pending"]
                 /\ splitpc' = "waiting"
                 /\ UNCHANGED splitError
  /\ UNCHANGED <<splitResult, outsideSplit>>

\* one transfer resolves; Promise.all resolves when it was the last one
TransferSucceeds ==
  /\ splitpc \in {"waiting", "raised"}
  /\ \E i \in DOMAIN settled, t \in Times :
       /\ settled[i] = "pending"
       /\ settled' = [settled EXCEPT ![i] = "ok"]
       /\ IF splitpc = "waiting" /\ \A j \in DOMAIN settled : settled'[j] = "ok"
            THEN /\ splitResult' =
                      [originalAmount |-> splitOf.amount,
                       splits |-> [j \in DOMAIN transfers |->
                                     PaymentResult(transfers[j])],
                       timestamp |-> t]
                 /\ splitpc' = "returned"
            ELSE UNCHANGED <<splitResult, splitpc>>
  /\ UNCHANGED <<splitOf, recipients, transfers, splitError, outsideSplit>>

\* one transfer rejects; Promise.all rejects with the first rejection and
\* takes no notice of what settles after it
TransferFails ==
  /\ splitpc \in {"waiting", "raised"}
  /\ \E i \in DOMAIN settled :
       /\ settled[i] = "pending"
       /\ settled' = [settled EXCEPT ![i] = "failed"]
       /\ IF splitpc = "waiting"
            THEN /\ splitError' = ErrTransfer(i)
                 /\ splitpc' = "raised"
            ELSE UNCHANGED <<splitError, splitpc>>
  /\ UNCHANGED <<splitOf, recipients, transfers, splitResult, outsideSplit>>

SplitNext ==
  \/ SplitPayment
  \/ TransferSucceeds
  \/ TransferFails

(***************************************************************************)
(* AgentMesh: the node registry, routeTask and coordinateTask              *)
(***************************************************************************)
MaxNodes == 2
MaxAgents == 3

\* An AgentNode; the k-th node of a registry has the id n<k>
Loads == {10, 50}
NodeAt(k) == [id : {"n" \o ToString(k)}, load : Loads, available : BOOLEAN]
NoNode == [id |-> Null, load |-> 0, available |-> FALSE]

\* config.nodes || []
RECURSIVE Registries(_)
Registries(n) ==
  IF n = 0 THEN {<<>>}
  ELSE LET shorter == Registries(n - 1)
       IN shorter \cup
          {Append(l, x) : l \in {r \in shorter : Len(r) = n - 1}, x \in NodeAt(n)}

\* config.routingStrategy || 'round-robin'
StrategyOf(configured) ==
  IF Truthy(configured) THEN configured ELSE "round-robin"

\* curr.load < prev.load ? curr : prev
Lighter_Heavier(prev, curr) == IF curr.load > prev.load THEN curr ELSE prev
Lighter(prev, curr) == IF curr.load < prev.load THEN curr ELSE prev

\* this.networkNodes.reduce(...), on a list that is not empty
RECURSIVE LowestLoad(_)
LowestLoad(nodes) ==
  IF Len(nodes) = 1 THEN nodes[1]
  ELSE Lighter(LowestLoad(SubSeq(nodes, 1, Len(nodes) - 1)), nodes[Len(nodes)])

\* a selection that mixes two states of a node
selectNode_Torn(nodes, strategy, random) ==
  IF Len(nodes) = 0 THEN NoNode
  ELSE [nodes[1] EXCEPT !.available = ~@]

\* selectNode(task), where random is the index Math.random() leads to
selectNode(nodes, strategy, random) ==
  IF Len(nodes) = 0 THEN NoNode
  ELSE CASE strategy = "round-robin" -> nodes[random]
         [] strategy = "load-based" -> LowestLoad(nodes)
         [] OTHER -> nodes[1]

\* Math.floor(Math.random() * this.networkNodes.length), counted from 1
RandomIndices(nodes) == IF nodes = <<>> THEN {1} ELSE 1..Len(nodes)

ErrNoNodes_Generic == Err("Routing failed", "routeTask")
ErrNoNodes == Err("No available nodes for task routing", "routeTask")
ErrNode(id) == Err("fetch failed", id)

RouteTasks == [id : {"task-1", "task-2"}]
NoRouteResult == [nodeId |-> Null, taskId |-> Null, result |-> Null]

\* a routeTask call that has not been made
NoCall == [pc |-> "idle", task |-> [id |-> Null], node |-> NoNode]

MeshNew ==
  /\ meshpc = "new"
  /\ networkNodes = <<>>
  /\ routingStrategy = Null
  /\ other = NoCall
  /\ rpc = "idle"
  /\ rtask = [id |-> Null]
  /\ selectedNode = NoNode
  /\ sent = <<>>
  /\ routeResult = NoRouteResult
  /\ routeError = NoError
  /\ cpc = "idle"
  /\ ctask = [id |-> Null, workflow |-> Null, agents |-> <<>>, budget |-> 0]
  /\ subtasks = <<>>
  /\ subNode = <<>>
  /\ subState = <<>>
  /\ coordResult = [taskId |-> Null, workflow |-> Null, agents |-> <<>>,
                    completed |-> FALSE]
  /\ coordError = NoError

\* new AgentMesh(config)
MeshConstruct ==
  /\ meshpc = "new"
  /\ networkNodes' \in Registries(MaxNodes)
  /\ \E configured \in {Null, "round-robin", "load-based", "nearest"} :
       routingStrategy' = StrategyOf(configured)
  /\ meshpc' = "ready"
  /\ UNCHANGED <<routeVars, coordVars, outsideMesh>>

\* routeTask(task) is called: selectNode, the throw of line 22 or the call of
\* sendTaskToNode and its await
RouteTask ==
  /\ meshpc = "ready"
  /\ rpc = "idle"
  /\ \E task \in RouteTasks, random \in RandomIndices(networkNodes) :
       LET node == selectNode(networkNodes, routingStrategy, random)
       IN /\ rtask' = task
          /\ selectedNode' = node
          /\ IF node = NoNode
               THEN /\ routeError' = ErrNoNodes
                    /\ rpc' = "raised"
                    /\ UNCHANGED sent
               ELSE /\ sent' = Append(sent, [taskId |-> task.id,
                                             nodeId |-> node.id])
                    /\ rpc' = "sending"
                    /\ UNCHANGED routeError
  /\ UNCHANGED <<routeResult, registryVars, coordVars, outsideMesh>>

\* await this.sendTaskToNode(task, selectedNode) resolves, lines 29-33
NodeAnswers ==
  /\ rpc = "sending"
  /\ \E answer \in {"accepted", "rejected"} :
       routeResult' = [nodeId |-> selectedNode.id, taskId |-> rtask.id,
                       result |-> answer]
  /\ rpc' = "returned"
  /\ UNCHANGED <<rtask, selectedNode, sent, routeError, registryVars,
                 coordVars, outsideMesh>>

\* await this.sendTaskToNode(task, selectedNode) rejects
NodeFaults ==
  /\ rpc = "sending"
  /\ routeError' = ErrNode(selectedNode.id)
  /\ rpc' = "raised"
  /\ UNCHANGED <<rtask, selectedNode, sent, routeResult, registryVars,
                 coordVars, outsideMesh>>

RouteNext ==
  \/ MeshConstruct
  \/ RouteTask
  \/ NodeAnswers
  \/ NodeFaults

\* Arguments of coordinateTask: a task with its first n agents listed
AgentList(n) == [k \in 1..n |-> [id |-> "agent-" \o ToString(k)]]
CoordinateTasks ==
  [id : {"task-1"}, workflow : {"pipeline"},
   agents : {AgentList(n) : n \in 0..MaxAgents}, budget : {300, 600}]

\* step: index + 1, for the index of agents.map, which counts from 0
StepOf_ZeroBased(index) == index
StepOf(index) == index + 1

\* const agentBudget = budget / agents.length; the budgets of the model are
\* multiples of every number of agents, so that the quotient is exact
AgentBudget(task) == task.budget \div Len(task.agents)

\* const subtask = { ...task, agentId: agent.id, step: index + 1,
\* budget: agentBudget }, for the k-th agent; of the fields the spread copies,
\* id and workflow are kept
Subtask(task, k) ==
  [id |-> task.id, workflow |-> task.workflow, agentId |-> task.agents[k].id,
   step |-> StepOf(k - 1), budget |-> AgentBudget(task)]

\* what routeTask returns for the k-th subtask
RouteOutcome(k) ==
  [nodeId |-> subNode[k].id, taskId |-> subtasks[k].id, result |-> "accepted"]

\* Promise.all resolves once each of its promises has resolved
AllRouted_Some(st) == \E k \in DOMAIN st : st[k] = "ok"
AllRouted(st) == \A k \in DOMAIN st : st[k] = "ok"

\* return { taskId: task.id, workflow, agents: coordinationResults,
\* completed: true }
CoordinationResult ==
  [taskId |-> ctask.id, workflow |-> ctask.workflow,
   agents |-> [k \in DOMAIN subtasks |-> RouteOutcome(k)], completed |-> TRUE]

\* coordinateTask(task) is called: agents.map calls routeTask for every
\* agent, each call selects its node and either is rejected for want of a
\* node or starts sendTaskToNode; then the await of Promise.all, which is
\* over at once when no agent is listed or when a call was rejected
CoordinateTask ==
  /\ meshpc = "ready"
  /\ cpc = "idle"
  /\ \E task \in CoordinateTasks :
       \E random \in [DOMAIN task.agents -> RandomIndices(networkNodes)] :
         LET n == Len(task.agents)
             nodes == [k \in 1..n |->
                         selectNode(networkNodes, routingStrategy, random[k])]
         IN /\ ctask' = task
            /\ subtasks' = [k \in 1..n |-> Subtask(task, k)]
            /\ subNode' = nodes
            /\ subState' = [k \in 1..n |->
                              IF nodes[k] = NoNode THEN "failed" ELSE "sending"]
            /\ IF n = 0
                 THEN /\ coordResult' =
                           [taskId |-> task.id, workflow |-> task.workflow,
                            agents |-> <<>>, completed |-> TRUE]
                      /\ cpc' = "returned"
                      /\ UNCHANGED coordError
               ELSE IF networkNodes = <<>>
                 THEN /\ coordError' = ErrNoNodes
                      /\ cpc' = "raised"
                      /\ UNCHANGED coordResult
               ELSE /\ cpc' = "waiting"
                    /\ UNCHANGED <<coordResult, coordError>>
  /\ UNCHANGED <<registryVars, routeVars, outsideMesh>>

\* the routeTask call of one subtask returns; Promise.all resolves when it
\* was the last one
SubtaskRouted ==
  /\ cpc \in {"waiting", "raised"}
  /\ \E k \in DOMAIN subState :
       /\ subState[k] = "sending"
       /\ subState' = [subState EXCEPT ![k] = "ok"]
       /\ IF cpc = "waiting" /\ AllRouted(subState')
            THEN /\ coordResult' = CoordinationResult
                 /\ cpc' = "returned"
            ELSE UNCHANGED <<coordResult, cpc>>
  /\ UNCHANGED <<ctask, subtasks, subNode, coordError, registryVars,
                 routeVars, outsideMesh>>

\* the routeTask call of one subtask raises; Promise.all rejects with the
\* first rejection
SubtaskFails ==
  /\ cpc \in {"waiting", "raised"}
  /\ \E k \in DOMAIN subState :
       /\ subState[k] = "sending"
       /\ subState' = [subState EXCEPT ![k] = "failed"]
       /\ IF cpc = "waiting"
            THEN /\ coordError' = ErrNode(subNode[k].id)
                 /\ cpc' = "raised"
            ELSE UNCHANGED <<coordError, cpc>>
  /\ UNCHANGED <<ctask, subtasks, subNode, coordResult, registryVars,
                 routeVars, outsideMesh>>

CoordinateNext ==
  \/ MeshConstruct
  \/ CoordinateTask
  \/ SubtaskRouted
  \/ SubtaskFails

(***************************************************************************)
(* AgentMesh: the registry changes while tasks are routed                  *)
(*                                                                         *)
(* this.networkNodes is the array config.nodes itself, so its owner writes *)
(* to the nodes the mesh reads.  One assignment to one field is one step;  *)
(* it runs between the turns of the routeTask calls, never inside one.  A  *)
(* second routeTask call is made while the first may be in flight.         *)
(***************************************************************************)
OtherTasks == [id : {"task-3"}]

\* node.load = l, or node.available = !node.available
UpdateNode ==
  /\ meshpc = "ready"
  /\ \E k \in DOMAIN networkNodes :
       \/ \E l \in Loads \ {networkNodes[k].load} :
            networkNodes' = [networkNodes EXCEPT ![k].load = l]
       \/ networkNodes' = [networkNodes EXCEPT ![k].available = ~@]
  /\ UNCHANGED <<meshpc, routingStrategy, routeVars, coordVars, outsideMesh>>

\* routeTask(task) is called a second time: selectNode, the throw of line 22
\* or the call of sendTaskToNode and its await
RouteTaskOther ==
  /\ meshpc = "ready"
  /\ other.pc = "idle"
  /\ \E task \in OtherTasks, random \in RandomIndices(networkNodes) :
       LET node == selectNode(networkNodes, routingStrategy, random)
       IN /\ other' = [pc |-> IF node = NoNode THEN "raised" ELSE "sending",
                       task |-> task, node |-> node]
          /\ sent' = IF node = NoNode THEN sent
                     ELSE Append(sent, [taskId |-> task.id,
                                        nodeId |-> node.id])
  /\ UNCHANGED <<rpc, rtask, selectedNode, routeResult, routeError,
                 registryVars, coordVars, verifierVars, processorVars,
                 bridgeVars, walletVars, engineVars, summaryVars, splitVars,
                 orchestratorVars>>

\* the await of sendTaskToNode of the second call settles and the call
\* ends, lines 27-33
OtherSettles ==
  /\ other.pc = "sending"
  /\ other' = [other EXCEPT !.pc = "ended"]
  /\ UNCHANGED <<registryVars, routeVars, coordVars, verifierVars,
                 processorVars, bridgeVars, walletVars, engineVars,
                 summaryVars, splitVars, orchestratorVars>>

RegistryNext ==
  \/ MeshConstruct
  \/ UpdateNode
  \/ RouteTask
  \/ NodeAnswers
  \/ NodeFaults
  \/ RouteTaskOther
  \/ OtherSettles

(***************************************************************************)
(* TaskOrchestrator                                                        *)
(*                                                                         *)
(* One request: requestRenderService or requestDataProcessing.  The wallet *)
(* is the AgentWallet above: pay resolves to the transaction with its hash *)
(* once it is broadcast, and paymentTx.wait is waitForConfirmation.        *)
(***************************************************************************)
OrchestratorConfirmations == 2

RenderConfigs == [chartType : {"bar"}, data : {"d1", "d2"}, format : {"png"}]
ProcessConfigs ==
  [dataSource : {"s1", "s2"}, operation : {"sum"}, outputFormat : {"csv"}]
NoConfig == [data |-> Null]

\* the argument of this.wallet.pay, and what pay adds to it
PaymentTx(service, hash, id) ==
  [hash |-> hash,
   to |-> "forge.network/" \o service,
   amount |-> IF service = "render" THEN "3.5" ELSE "2.0",
   asset |-> "USDC",
   metadata |-> [jobId |-> id, service |-> service]]
NoPaymentTx ==
  [hash |-> Null, to |-> Null, amount |-> Null, asset |-> Null,
   metadata |-> [jobId |-> Null, service |-> Null]]

\* receipt.status === 'confirmed'
PaymentConfirmed_Any(r) == TRUE
PaymentConfirmed(r) == r.status = "confirmed"

\* the payload of notifyRenderAgent, lines 48-53
Notification(tx, config) ==
  [txHash |-> tx.hash, jobId |-> tx.metadata.jobId, data |-> config.data,
   config |-> [chartType |-> config.chartType, format |-> config.format]]

\* { success: true, txHash: paymentTx.hash, jobId: paymentTx.metadata.jobId }
RequestResult(tx) ==
  [success |-> TRUE, txHash |-> tx.hash, jobId |-> tx.metadata.jobId]
NoRequestResult == [success |-> FALSE, txHash |-> Null, jobId |-> Null]

ErrPay == Err("broadcast failed", "pay")
ErrRenderPayment == Err("Payment confirmation failed", "requestRenderService")
ErrProcessPayment == Err("Processing payment failed", "requestDataProcessing")
ErrNotification ==
  Err("Agent notification failed: Bad Gateway", "notifyRenderAgent")
ErrFetch == Err("fetch failed", "notifyRenderAgent")

OrchestratorNew ==
  /\ opc = "new"
  /\ defaultConfirmations = 0
  /\ oservice = Null
  /\ oconfig = NoConfig
  /\ paymentTx = NoPaymentTx
  /\ oreceipt = NoAnswer
  /\ notified = <<>>
  /\ oresult = NoRequestResult
  /\ oerror = NoError
  /\ otrace = <<>>

\* new TaskOrchestrator(config):
\* this.defaultConfirmations = config.confirmations || 2
OrchestratorConstruct ==
  /\ opc = "new"
  /\ \E c \in 0..MaxConfirmations :
       defaultConfirmations' = IF c # 0 THEN c ELSE OrchestratorConfirmations
  /\ opc' = "idle"
  /\ UNCHANGED <<oservice, oconfig, paymentTx, oreceipt, notified, oresult,
                 oerror, otrace, outsideOrchestrator>>

\* requestRenderService(config) is called, up to the await of wallet.pay
RequestRenderService ==
  /\ opc = "idle"
  /\ \E config \in RenderConfigs : oconfig' = config
  /\ oservice' = "render"
  /\ opc' = "paying"
  /\ otrace' = Append(otrace, "pay")
  /\ UNCHANGED <<defaultConfirmations, paymentTx, oreceipt, notified, oresult,
                 oerror, outsideOrchestrator>>

\* requestDataProcessing(config) is called, up to the await of wallet.pay
RequestDataProcessing ==
  /\ opc = "idle"
  /\ \E config \in ProcessConfigs : oconfig' = config
  /\ oservice' = "process"
  /\ opc' = "paying"
  /\ otrace' = Append(otrace, "pay")
  /\ UNCHANGED <<defaultConfirmations, paymentTx, oreceipt, notified, oresult,
                 oerror, outsideOrchestrator>>

\* await this.wallet.pay(...) resolves: the transaction was signed and
\* broadcast; then paymentTx.wait(...) is called and awaited
PayResolves ==
  /\ opc = "paying"
  /\ \E hash \in TxHashes, id \in JobIds :
       paymentTx' = PaymentTx(oservice, hash, id)
  /\ opc' = "waiting"
  /\ otrace' = otrace \o <<"broadcast", "wait">>
  /\ UNCHANGED <<defaultConfirmations, oservice, oconfig, oreceipt, notified,
                 oresult, oerror, outsideOrchestrator>>

\* await this.wallet.pay(...) rejects: the error leaves the request
PayRejects ==
  /\ opc = "paying"
  /\ oerror' = ErrPay
  /\ opc' = "raised"
  /\ otrace' = Append(otrace, "raise")
  /\ UNCHANGED <<defaultConfirmations, oservice, oconfig, paymentTx, oreceipt,
                 notified, oresult, outsideOrchestrator>>

\* await paymentTx.wait({confirmations}) resolves to what waitForConfirmation
\* returns.  requestRenderService then posts the notification and awaits it,
\* or throws; requestDataProcessing returns, or throws.
WaitResolves ==
  /\ opc = "waiting"
  /\ \E r \in LedgerAnswers :
       /\ Confirmed(r, defaultConfirmations)
       /\ oreceipt' = ConfirmedReceipt(r)
  /\ IF PaymentConfirmed(oreceipt')
       THEN IF oservice = "render"
              THEN /\ notified' =
                        Append(notified, Notification(paymentTx, oconfig))
                   /\ opc' = "notifying"
                   /\ otrace' = otrace \o <<"receipt", "notify">>
                   /\ UNCHANGED <<oresult, oerror>>
              ELSE /\ oresult' = RequestResult(paymentTx)
                   /\ opc' = "returned"
                   /\ otrace' = otrace \o <<"receipt", "return">>
                   /\ UNCHANGED <<notified, oerror>>
       ELSE /\ oerror' = IF oservice = "render" THEN ErrRenderPayment
                         ELSE ErrProcessPayment
            /\ opc' = "raised"
            /\ otrace' = otrace \o <<"receipt", "raise">>
            /\ UNCHANGED <<notified, oresult>>
  /\ UNCHANGED <<defaultConfirmations, oservice, oconfig, paymentTx,
                 outsideOrchestrator>>

\* await paymentTx.wait(...) rejects: the deadline passed, or a lookup failed
WaitRejects ==
  /\ opc = "waiting"
  /\ \E e \in {ErrConfirmationTimeout, ErrLookup} : oerror' = e
  /\ opc' = "raised"
  /\ otrace' = Append(otrace, "raise")
  /\ UNCHANGED <<defaultConfirmations, oservice, oconfig, paymentTx, oreceipt,
                 notified, oresult, outsideOrchestrator>>

\* the fetch of notifyRenderAgent resolves: the throw of line 82 when the
\* response is not ok, else the return of lines 55-59
NotifyAnswers ==
  /\ opc = "notifying"
  /\ \E ok \in BOOLEAN :
       IF ok
         THEN /\ oresult' = RequestResult(paymentTx)
              /\ opc' = "returned"
              /\ otrace' = Append(otrace, "return")
              /\ UNCHANGED oerror
         ELSE /\ oerror' = ErrNotification
              /\ opc' = "raised"
              /\ otrace' = Append(otrace, "raise")
              /\ UNCHANGED oresult
  /\ UNCHANGED <<defaultConfirmations, oservice, oconfig, paymentTx, oreceipt,
                 notified, outsideOrchestrator>>

\* the fetch of notifyRenderAgent rejects
NotifyFaults ==
  /\ opc = "notifying"
  /\ oerror' = ErrFetch
  /\ opc' = "raised"
  /\ otrace' = Append(otrace, "raise")
  /\ UNCHANGED <<defaultConfirmations, oservice, oconfig, paymentTx, oreceipt,
                 notified, oresult, outsideOrchestrator>>

OrchestratorNext ==
  \/ OrchestratorConstruct
  \/ RequestRenderService
  \/ RequestDataProcessing
  \/ PayResolves
  \/ PayRejects
  \/ WaitResolves
  \/ WaitRejects
  \/ NotifyAnswers
  \/ NotifyFaults

\* Nothing has been called yet
Init == VerifierInit /\ ProcessorIdle /\ BridgeIdle /\ WalletIdle
        /\ EngineNew /\ SummaryIdle /\ SplitIdle /\ MeshNew
        /\ OrchestratorNew

ProcessorSpec == Init /\ [][ProcessorNext]_vars

VerifierNext == VerifyCall \/ VerifyDone

VerifierSpec == Init /\ [][VerifierNext]_vars

BridgeSpec == Init /\ [][BridgeNext]_vars

WalletSpec == Init /\ [][WalletNext]_vars

\* The event loop runs every step of the wallet that is ready to run
WalletFairSpec == Init /\ [][WalletNext]_vars /\ WF_vars(WalletNext)

EngineSpec == Init /\ [][EngineNext]_vars

SummarySpec == Init /\ [][SummaryNext]_vars

AuditSpec == Init /\ [][AuditNext]_vars

SplitSpec == Init /\ [][SplitNext]_vars

RouteSpec == Init /\ [][RouteNext]_vars

CoordinateSpec == Init /\ [][CoordinateNext]_vars

OrchestratorSpec == Init /\ [][OrchestratorNext]_vars

RegistrySpec == Init /\ [][RegistryNext]_vars

(***************************************************************************)
(* Properties of PaymentProcessor.processPaymentRequest, under             *)
(* ProcessorSpec                                                           *)
(***************************************************************************)
Did(e) == \E i \in DOMAIN trace : trace[i] = e
Finished == pc = "done"
\* The entries the audit sink recorded during the current call
CallEntries == SubSeq(auditLog, logStart + 1, Len(auditLog))
Verified == pc \notin {"idle", "verify"}
JobEnds == {"jobCompleted", "jobFailed", "jobTimeout"}
JobSteps == {"getJob", "setContext", "run", "setTimeout"}

\* C1: every finished call (success result, {success:false} result, or error
\* raised) has written exactly one audit entry for its request, with status
\* 'completed' when the job ran to completion and 'failed' otherwise.
C1_ExactlyOneAuditEntry ==
  Finished =>
    /\ Len(CallEntries) = 1
    /\ CallEntries[1].txHash = txHash
    /\ CallEntries[1].status =
         (IF Did("jobCompleted") THEN "completed" ELSE "failed")

\* C2: when the verifier returns an invalid receipt, the call returns
\* {success:false, error: receipt.reason}, raises nothing, and neither fetches
\* nor runs any job.
C2_InvalidReceiptReturnsReason ==
  (Verified /\ ~receipt.valid) =>
    /\ Finished
    /\ outcome.kind = "returned"
    /\ outcome.success = FALSE
    /\ outcome.error = receipt.reason
    /\ error = NoError
    /\ job = "none"
    /\ timer = "none"
    /\ \A e \in JobSteps : ~Did(e)

C2_Witness ==
  /\ Finished
  /\ ~receipt.valid
  /\ receipt.reason = ReasonNotConfirmed
  /\ outcome.kind = "returned"

\* C3: within one call, a job is fetched and run only after verification has
\* returned a valid receipt; every audit write comes after job execution has
\* ended (completed, failed or timed out) and is followed by no step of job
\* execution; and an audit write is the last action before the call returns
\* or raises.
C3_VerifyThenJobThenAudit ==
  /\ \A i \in DOMAIN trace :
       trace[i] \in JobSteps =>
         /\ receipt.valid
         /\ \E k \in 1..(i - 1) : trace[k] = "verify"
  /\ \A i \in DOMAIN trace :
       trace[i] = "logAudit" =>
         /\ \A j \in DOMAIN trace :
              j > i => trace[j] \notin JobSteps \cup JobEnds \cup {"verify"}
         /\ \A k \in 1..(i - 1) :
              trace[k] = "run" =>
                \E m \in (k + 1)..(i - 1) : trace[m] \in JobEnds
  /\ \A i \in DOMAIN trace :
       (trace[i] \in {"return", "raise"} /\ Did("logAudit")) =>
         /\ trace[i - 1] = "logAudit"
         /\ i = Len(trace)
  /\ Finished => trace[Len(trace)] \in {"return", "raise"}
  /\ (Finished /\ receipt.valid) => Did("logAudit")

C3_Witness ==
  /\ Finished
  /\ Did("run")
  /\ Did("jobTimeout")
  /\ Did("logAudit")
  /\ outcome.kind = "raised"

\* C4: on a valid receipt the job id is receipt.metadata.jobId when present
\* and otherwise the top-level receipt.jobId; when neither is present the
\* call raises an error, returns no result, and fetches and runs no job.
C4_JobIdFromMetadataElseTopLevel ==
  (Verified /\ receipt.valid) =>
    LET fromMetadata == receipt.metadata.present /\ receipt.metadata.jobId # Null
    IN /\ fromMetadata => jobId = receipt.metadata.jobId
       /\ ~fromMetadata => jobId = receipt.jobId
       /\ (~fromMetadata /\ receipt.jobId = Null) =>
            /\ pc \in {"catch", "done"}
            /\ Finished => outcome.kind = "raised"
            /\ outcome.kind # "returned"
            /\ job = "none"
            /\ \A e \in JobSteps : ~Did(e)

C4_Witness ==
  /\ Finished
  /\ receipt.valid
  /\ receipt.metadata.present
  /\ receipt.metadata.jobId = Null
  /\ receipt.jobId = Null
  /\ outcome.kind = "raised"
  /\ outcome.error = ErrNoJobId

\* C5: if the job has not completed when the 300 s deadline passes, the call
\* raises the timeout error after issuing the write of a 'failed' audit entry;
\* the job is not cancelled and its later completion changes nothing.
C5_TimeoutRaisesTimeoutError ==
  (Finished /\ Did("jobTimeout")) =>
    /\ outcome.kind = "raised"
    /\ outcome.error = ErrJobTimeout
    /\ Did("logAudit")
    /\ \A i \in DOMAIN CallEntries : CallEntries[i].status = "failed"

\* C6: a failure of the audit sink never changes the outcome of the call: a
\* completed job still yields {success:true, jobId, result}, and a failed
\* call raises the processing error, never the audit error.
C6_AuditFailureNeverChangesOutcome ==
  Finished =>
    /\ Did("jobCompleted") => outcome = SuccessOutcome(jobId, result)
    /\ outcome.kind = "raised" => outcome.error.origin # "logAudit"

(***************************************************************************)
(* Properties of PaymentVerifier.verify, under VerifierSpec                *)
(***************************************************************************)
Returned == vpc = "returned"
Ledger == fetched.receipt
Found == Returned /\ fetched.kind = "receipt"

\* C7: verify returns valid=true exactly when the ledger holds a receipt for
\* txHash whose amount equals expectedAmount, whose asset equals
\* expectedAsset, whose status is 'confirmed', and which has no expiry or an
\* expiry that has not passed; the valid receipt carries the record's from,
\* to, blockNumber, service, metadata and jobId unchanged.
C7_ValidExactlyWhenAllChecksPass ==
  Returned =>
    /\ vresult.valid <=>
         /\ fetched.kind = "receipt"
         /\ Ledger.txHash = options.txHash
         /\ Ledger.amount = options.expectedAmount
         /\ Ledger.asset = options.expectedAsset
         /\ Ledger.status = "confirmed"
         /\ (Ledger.expiresAt = 0 \/ now <= Ledger.expiresAt)
    /\ vresult.valid =>
         /\ vresult.from = Ledger.from
         /\ vresult.to = Ledger.to
         /\ vresult.blockNumber = Ledger.blockNumber
         /\ vresult.service = Ledger.service
         /\ vresult.metadata = Ledger.metadata
         /\ vresult.jobId = Ledger.jobId

C7_Witness ==
  /\ Returned
  /\ vresult.valid
  /\ Ledger.expiresAt = now
  /\ vresult.from = "0xC"
  /\ vresult.jobId = "job-2"

\* C8: whenever the ledger receipt's status is not 'confirmed', verify
\* returns valid=false whatever the amount and asset are; when amount and
\* asset match, the reason is the not-confirmed one ('Transaction not
\* confirmed' in the code) and the observed status is attached.
C8_UnconfirmedIsInvalid ==
  (Found /\ Ledger.status # "confirmed") =>
    /\ ~vresult.valid
    /\ (/\ Ledger.amount = options.expectedAmount
        /\ Ledger.asset = options.expectedAsset) =>
         /\ vresult.reason = ReasonNotConfirmed
         /\ vresult.status = Ledger.status

C8_Witness ==
  /\ Found
  /\ Ledger.status = "pending"
  /\ Ledger.amount = options.expectedAmount
  /\ Ledger.asset = options.expectedAsset
  /\ ~vresult.valid

\* C9: a receipt whose expiresAt lies before the current time makes verify
\* return valid=false with the expired reason ('Payment expired' in the code)
\* even when amount, asset and status all match; a receipt without expiresAt
\* is never rejected as expired.
C9_ExpiredIsInvalid ==
  Found =>
    /\ (Ledger.expiresAt # 0 /\ Ledger.expiresAt < now) =>
         /\ ~vresult.valid
         /\ (/\ Ledger.amount = options.expectedAmount
             /\ Ledger.asset = options.expectedAsset
             /\ Ledger.status = "confirmed") => vresult.reason = ReasonExpired
    /\ Ledger.expiresAt = 0 =>
         (vresult.valid \/ vresult.reason # ReasonExpired)

C9_Witness ==
  /\ Found
  /\ Ledger.expiresAt # 0
  /\ Ledger.expiresAt < now
  /\ Ledger.amount = options.expectedAmount
  /\ Ledger.asset = options.expectedAsset
  /\ Ledger.status = "confirmed"
  /\ vresult.reason = ReasonExpired

\* C10: when the ledger receipt's amount is not exactly equal to
\* expectedAmount (no numeric tolerance: "0.50" is not "0.5"), verify returns
\* valid=false with the amount-mismatch reason ('Amount mismatch' in the
\* code), expected = expectedAmount and received = the ledger amount.
C10_AmountMismatch ==
  (Found /\ Ledger.amount # options.expectedAmount) =>
    /\ ~vresult.valid
    /\ vresult.reason = ReasonAmountMismatch
    /\ vresult.expected = options.expectedAmount
    /\ vresult.received = Ledger.amount

C10_Witness ==
  /\ Found
  /\ Ledger.amount = "0.50"
  /\ options.expectedAmount = "0.5"
  /\ vresult.reason = ReasonAmountMismatch

\* C11: when the ledger lookup itself faults, verify raises that fault to its
\* caller; it returns a structured invalid receipt only for the expected
\* invalid outcomes (not found, amount or asset mismatch, not confirmed,
\* expired).
ExpectedInvalidReasons ==
  {ReasonNotFound, ReasonAmountMismatch, ReasonAssetMismatch,
   ReasonNotConfirmed, ReasonExpired}
C11_LookupFaultIsRaised ==
  Returned =>
    /\ fetched.kind # "fault"
    /\ ~vresult.valid => vresult.reason \in ExpectedInvalidReasons

\* C34: verify reports the reason of the first check that fails, in the
\* order receipt found, amount, asset, status, expiry.
C34_FirstFailingCheckIsReported ==
  /\ (Returned /\ fetched.kind = "none") => vresult.reason = ReasonNotFound
  /\ Found =>
       IF Ledger.amount # options.expectedAmount
         THEN vresult.reason = ReasonAmountMismatch
       ELSE IF Ledger.asset # options.expectedAsset
         THEN vresult.reason = ReasonAssetMismatch
       ELSE IF Ledger.status # "confirmed"
         THEN vresult.reason = ReasonNotConfirmed
       ELSE IF Ledger.expiresAt # 0 /\ now > Ledger.expiresAt
         THEN vresult.reason = ReasonExpired
       ELSE vresult.valid
C34_Witness ==
  /\ Found
  /\ Ledger.asset # options.expectedAsset
  /\ Ledger.status # "confirmed"
  /\ Ledger.amount = options.expectedAmount
  /\ vresult.reason = ReasonAssetMismatch

(***************************************************************************)
(* BridgeLayer properties                                                  *)
(***************************************************************************)
BDid(e) == \E i \in 1..Len(btrace) : btrace[i] = e
SDid(e) == \E i \in 1..Len(strace) : strace[i] = e

\* C12: a request that carries no X-402-Payment header is answered with an
\* invalid result whose reason is the missing header, and neither the on-chain
\* verification nor the multi-sig verification is attempted for it.
C12_MissingHeaderRejectedUnverified ==
  (bpc # "idle" /\ ~Truthy(request.header)) =>
    /\ bpc = "returned"
    /\ bresult.valid = FALSE
    /\ bresult.reason = ReasonMissingHeader
    /\ ~BDid("verifyOnChain")
    /\ ~BDid("verifyMultiSig")
C12_Witness ==
  /\ bpc = "returned"
  /\ ~Truthy(request.header)
  /\ request.requiresMultiSig

\* C13: for a request whose payment claim needs multi-party authorization,
\* verifyRequest answers valid only when the on-chain verification and then
\* the multi-sig verification were both carried out and passed; otherwise the
\* answer is invalid, names the check that failed, and carries no payment.
C13_MultiSigRequiredBeforeAccept ==
  (bpc = "returned" /\ request.requiresMultiSig /\ Truthy(request.header)) =>
    IF bresult.valid
      THEN /\ verification.valid
           /\ btrace = <<"parsePaymentHeader", "verifyOnChain",
                         "verifyMultiSig", "return">>
      ELSE /\ "payment" \notin DOMAIN bresult
           /\ bresult.reason \in OnChainReasons \cup {ReasonMultiSigFailed}

\* C14: automateSettlement returns only after gas estimation, execution and
\* the wait for settlement have succeeded in that order; the result carries
\* success, the settlement's hash, the receipt, and the latency from the
\* payment's timestamp to the receipt's; a failure of any step is raised to
\* the caller as the step's own error and nothing is returned.
C14_SettlementResult ==
  /\ spc = "returned" =>
       /\ strace = <<"estimate", "executeSettlement", "waitForSettlement",
                     "return">>
       /\ sresult.success
       /\ sresult.txHash = settlementTx.hash
       /\ sresult.receipt.hash = settlementTx.hash
       /\ sresult.receipt.timestamp - spayment.timestamp = sresult.latency
       /\ serror = NoError
  /\ SDid("fail") =>
       /\ spc = "raised"
       /\ sresult = [success |-> FALSE]
       /\ serror \in {ErrEstimate, ErrExecute, ErrWait}
       /\ serror.origin = strace[Len(strace) - 2]
C14_Witness ==
  /\ spc = "returned"
  /\ sresult.latency = 1
(***************************************************************************)
(* Properties of AgentWallet.waitForConfirmation, under WalletSpec and     *)
(* WalletFairSpec                                                          *)
(***************************************************************************)
WaitFinished == wpc \in {"returned", "raised"}

\* the poll that has just been answered shows enough confirmations
ThresholdMet ==
  /\ polls > 0
  /\ lastAnswer # NoAnswer
  /\ lastAnswer.confirmations >=
       (IF wopts.confirmations = 0 THEN 1 ELSE wopts.confirmations)

\* C15: the wait returns at the poll that first shows a receipt with at least
\* the required number of confirmations (1 when the caller names none), and
\* from then on performs no ledger lookup.
C15_ReturnsAtFirstConfirmedPoll ==
  /\ [](ThresholdMet => (wpc = "returned" /\ wresult.hash = lastAnswer.hash))
  /\ [][wpc = "returned" => (polls' = polls /\ wpc' = "returned")]_vars
C15_Witness ==
  /\ wpc = "returned"
  /\ wopts.confirmations = 0
  /\ polls = 2
  /\ lastAnswer.confirmations = 1

\* C16: every receipt the wait returns has at least the required number of
\* confirmations and the status 'confirmed'; a wait that ends without one
\* ends with the confirmation-timeout error, raised once the timeout has
\* elapsed.
C16_ReturnsOnlyConfirmedReceipts ==
  /\ wpc = "returned" =>
       /\ wresult.confirmations >= Confirmations(wopts)
       /\ wresult.status = "confirmed"
  /\ (wpc = "raised" /\ werror # ErrLookup) =>
       /\ werror = ErrConfirmationTimeout
       /\ wclock - startTime >= MaxWait(wopts)

\* C17: every wait that was started eventually returns or raises, whatever
\* the ledger does.
C17_WaitEventuallyFinishes == (wpc # "idle") ~> WaitFinished
(***************************************************************************)
(* Properties of ProofEngine, under EngineSpec                             *)
(***************************************************************************)
Verdicts == {"true", "false"}

\* C18: a proof that generateProof returned for a transaction with a signer,
\* and that nobody changed since, is verified true.
C18_RoundTrip ==
  (epc = "verified" /\ issued # NoProof /\ presented = issued
     /\ Truthy(issued.signature)) => verdict = "true"
C18_Witness ==
  /\ epc = "verified"
  /\ issued # NoProof
  /\ presented = issued
  /\ Truthy(issued.signature)
  /\ issued.data.amount = Num("NaN")
  /\ verdict = "true"

\* C19: a proof whose data differs in some field from what generateProof
\* returned is verified false.
C19_ChangedFieldIsRejected ==
  (epc = "verified" /\ issued # NoProof /\ presented.data # issued.data) =>
    verdict = "false"

\* C20: verifyProof answers true or false on every engine, whatever
\* algorithm it was configured with; it leaves the proof as it was handed
\* over and gives nothing to the proof store.
C20_VerifyProofIsTotal ==
  epc = "verified" =>
    /\ verdict \in Verdicts
    /\ proof = presented
    /\ stored = (IF proofStorage /\ issued # NoProof THEN <<issued>> ELSE <<>>)
(***************************************************************************)
(* Properties of ProofEngine.generateAuditSummary, under SummarySpec       *)
(***************************************************************************)
Indices == 1..Len(proofsIn)

\* a <= b
Leq(a, b) == Less(a, b) \/ (~a.nan /\ a = b)

\* the numeric sum of the amounts of the proofs at the indices in I
RECURSIVE AmountSum(_)
AmountSum(I) ==
  IF I = {} THEN Finite(0)
  ELSE LET i == CHOOSE i \in I : TRUE
       IN Add(NumberOf(proofsIn[i].amount), AmountSum(I \ {i}))

\* C21: for an empty list of proofs generateAuditSummary returns a summary
\* with no transactions, a total amount of 0, no asset and no service, and a
\* time range that holds no instant.
C21_EmptySummary ==
  (sumpc = "returned" /\ proofsIn = <<>>) =>
    /\ summary.totalTransactions = 0
    /\ summary.totalAmount = Finite(0)
    /\ DOMAIN summary.assets = {}
    /\ DOMAIN summary.services = {}
    /\ ~Leq(summary.timeRange.start, summary.timeRange.end)
C21_Witness ==
  /\ sumpc = "returned"
  /\ proofsIn = <<>>

\* C22: for a non-empty list the summary counts the proofs, totals their
\* amounts, totals the amounts per asset, counts the proofs per service, and
\* spans from the least to the greatest timestamp.
C22_SummaryTotals ==
  (sumpc = "returned" /\ proofsIn # <<>>) =>
    /\ summary.totalTransactions = Len(proofsIn)
    /\ summary.totalAmount = AmountSum(Indices)
    /\ DOMAIN summary.assets = {proofsIn[i].asset : i \in Indices}
    /\ \A a \in DOMAIN summary.assets :
         summary.assets[a] = AmountSum({i \in Indices : proofsIn[i].asset = a})
    /\ DOMAIN summary.services =
         {proofsIn[i].service : i \in Indices} \ {Null}
    /\ \A sv \in DOMAIN summary.services :
         summary.services[sv] =
           Cardinality({i \in Indices : proofsIn[i].service = sv})
    /\ \E i \in Indices : summary.timeRange.start = Finite(proofsIn[i].timestamp)
    /\ \E i \in Indices : summary.timeRange.end = Finite(proofsIn[i].timestamp)
    /\ \A i \in Indices :
         /\ Leq(summary.timeRange.start, Finite(proofsIn[i].timestamp))
         /\ Leq(Finite(proofsIn[i].timestamp), summary.timeRange.end)
(***************************************************************************)
(* Properties of AgentMesh.splitPayment, under SplitSpec                   *)
(***************************************************************************)
RECURSIVE ShareSum(_)
ShareSum(I) ==
  IF I = {} THEN 0
  ELSE LET i == CHOOSE i \in I : TRUE
       IN recipients[i].share + ShareSum(I \ {i})

SplitFinished == splitpc \in {"returned", "raised"}

\* C23: no transfer is issued unless the shares of the call's recipients sum
\* to exactly 100; for any other sum the call raises with no transfer issued.
C23_NoTransferUnlessSharesTotal100 ==
  /\ transfers # <<>> => ShareSum(DOMAIN recipients) = 100
  /\ (splitpc # "idle" /\ ShareSum(DOMAIN recipients) # 100) =>
       /\ splitpc = "raised"
       /\ splitError.message = "Payment shares must total 100%"
       /\ transfers = <<>>
C23_Witness ==
  /\ splitpc = "raised"
  /\ Len(recipients) = 2
  /\ ShareSum(DOMAIN recipients) = 80
  /\ transfers = <<>>

\* C24: for shares that sum to 100, exactly one transfer is issued per
\* recipient, to that recipient's `to`, in the payment's asset, for the
\* recipient's share of the amount written with 6 decimals.
C24_OneTransferPerRecipient ==
  (splitpc # "idle" /\ ShareSum(DOMAIN recipients) = 100) =>
    /\ Len(transfers) = Len(recipients)
    /\ \A i \in DOMAIN recipients :
         /\ "to" \in DOMAIN recipients[i] => transfers[i].to = recipients[i].to
         /\ transfers[i].asset = splitOf.asset
         /\ (splitOf.amount = 100 * Millionth /\ recipients[i].share = 60) =>
              transfers[i].amount = "60.000000"
         /\ (splitOf.amount = 100 * Millionth /\ recipients[i].share = 40) =>
              transfers[i].amount = "40.000000"
         /\ (splitOf.amount = 1 /\ recipients[i].share = 60) =>
              transfers[i].amount = "0.000001"
         /\ (splitOf.amount = 1 /\ recipients[i].share = 40) =>
              transfers[i].amount = "0.000000"

\* C25: splitPayment returns or raises only once every transfer it issued
\* has settled, and when it raises, the failure of every failed transfer is
\* part of what it raises.
C25_JoinsAllTransfers ==
  SplitFinished =>
    /\ \A i \in DOMAIN settled : settled[i] # "pending"
    /\ \A i \in DOMAIN settled :
         settled[i] = "failed" => splitError = ErrTransfer(i)
(***************************************************************************)
(* Properties of AgentMesh.routeTask, under RouteSpec                      *)
(***************************************************************************)
Routed == rpc \in {"sending", "returned", "raised"}
RegistryNodes == {networkNodes[i] : i \in DOMAIN networkNodes}

\* C26: with an empty registry routeTask raises the no-available-nodes
\* error and sends the task to no node.
C26_NoNodesIsFatal ==
  (Routed /\ networkNodes = <<>>) =>
    /\ rpc = "raised"
    /\ routeError.message = "No available nodes for task routing"
    /\ sent = <<>>
C26_Witness ==
  /\ rpc = "raised"
  /\ networkNodes = <<>>
  /\ routingStrategy = "load-based"

\* C27: under the load-based policy the task is sent to a node of the
\* registry whose load no other node of the registry undercuts; under a
\* policy that is not recognized it is sent to the registry's first node.
C27_LoadBasedPicksLowestLoad ==
  (Routed /\ networkNodes # <<>>) =>
    /\ routingStrategy = "load-based" =>
         /\ selectedNode \in RegistryNodes
         /\ \A n \in RegistryNodes : selectedNode.load <= n.load
         /\ sent = <<[taskId |-> rtask.id, nodeId |-> selectedNode.id]>>
    /\ routingStrategy \notin {"load-based", "round-robin"} =>
         /\ selectedNode = networkNodes[1]
         /\ sent = <<[taskId |-> rtask.id, nodeId |-> networkNodes[1].id]>>
C27_Witness ==
  /\ rpc = "returned"
  /\ routingStrategy = "load-based"
  /\ Len(networkNodes) = 2
  /\ networkNodes[1].load > networkNodes[2].load
  /\ routeResult.nodeId = networkNodes[2].id

\* C28: under the round-robin policy the node the task is sent to is a node
\* of the registry whose available flag is true.
C28_RoundRobinPicksAvailableNode ==
  (Routed /\ routingStrategy = "round-robin" /\ sent # <<>>) =>
    /\ selectedNode \in RegistryNodes
    /\ selectedNode.available
(***************************************************************************)
(* Properties of AgentMesh.coordinateTask, under CoordinateSpec            *)
(***************************************************************************)
\* C29: coordinateTask gives routeTask exactly one subtask per listed agent;
\* the k-th carries step k, the k-th agent's id, and the task's budget
\* divided by the number of agents.
C29_OneSubtaskPerAgent ==
  cpc # "idle" =>
    /\ Len(subtasks) = Len(ctask.agents)
    /\ \A k \in DOMAIN subtasks :
         /\ subtasks[k].step = k
         /\ subtasks[k].agentId = ctask.agents[k].id
         /\ subtasks[k].budget * Len(ctask.agents) = ctask.budget
C29_Witness ==
  /\ cpc = "returned"
  /\ ctask.budget = 300
  /\ Len(ctask.agents) = 3
  /\ \A k \in 1..3 : subtasks[k].budget = 100

\* C30: coordinateTask returns, with completed set, only when every subtask
\* was routed, and its result then lists the outcome of every subtask in
\* order; when the routing of a subtask failed it raises and returns nothing.
C30_CompletedOnlyWhenAllRouted ==
  /\ cpc = "returned" =>
       /\ coordResult.completed
       /\ \A k \in DOMAIN subState : subState[k] = "ok"
       /\ Len(coordResult.agents) = Len(ctask.agents)
       /\ \A k \in DOMAIN subtasks :
            /\ coordResult.agents[k].taskId = ctask.id
            /\ coordResult.agents[k].nodeId = subNode[k].id
  /\ (\E k \in DOMAIN subState : subState[k] = "failed") =>
       /\ cpc = "raised"
       /\ ~coordResult.completed
       /\ coordResult.agents = <<>>
C30_Witness ==
  /\ cpc = "returned"
  /\ Len(ctask.agents) = 2
  /\ routingStrategy = "round-robin"
  /\ coordResult.agents[1].nodeId # coordResult.agents[2].nodeId
(***************************************************************************)
(* PaymentProcessor: the timer of executeJob                               *)
(***************************************************************************)
\* executeJob has finished: its await of the race has settled
ExecuteJobFinished == \E e \in JobEnds : Did(e)

\* C35: once executeJob has finished, whether the job completed first or the
\* deadline fired first, no deadline timer started by the call is pending.
C35_NoTimerLeftArmed == ExecuteJobFinished => timer # "armed"
(***************************************************************************)
(* AgentMesh.splitPayment: the sum of the transfers                        *)
(***************************************************************************)
\* the amounts of the transfers of the call, added up, in millionths
RECURSIVE TransferSum(_)
TransferSum(I) ==
  IF I = {} THEN 0
  ELSE LET i == CHOOSE i \in I : TRUE
       IN RoundedShare(splitOf.amount, recipients[i].share) +
          TransferSum(I \ {i})

\* C36: for shares that sum to 100, the amounts of the transfers, each
\* rounded to 6 decimal places, add up exactly to the amount of the payment.
C36_RoundingKeepsTheAmount ==
  (splitpc # "idle" /\ ShareSum(DOMAIN recipients) = 100) =>
    /\ \A i \in DOMAIN transfers :
         transfers[i].amount = ToFixed(splitOf.amount, recipients[i].share)
    /\ TransferSum(DOMAIN transfers) = splitOf.amount
(***************************************************************************)
(* Properties of the summary of an issued proof, under AuditSpec           *)
(***************************************************************************)
\* the transaction of the issued proof paid for a service
NamesService == "service" \in DOMAIN issued.data.metadata

\* C37: a proof of a transaction whose metadata names service s counts 1
\* under services[s] in the summary of that proof.
C37_CountedUnderItsService ==
  (sumpc = "returned" /\ epc = "holding" /\ NamesService) =>
    CountOrZero(summary.services, issued.data.metadata.service) = 1
(***************************************************************************)
(* Properties of TaskOrchestrator, under OrchestratorSpec                  *)
(***************************************************************************)
\* in the request, call a came before call b
OBefore(a, b) ==
  \E i, j \in DOMAIN otrace : i < j /\ otrace[i] = a /\ otrace[j] = b
ODid(a) == \E i \in DOMAIN otrace : otrace[i] = a
WaitFailed == oerror \in {ErrConfirmationTimeout, ErrLookup}

\* C32: the agent is notified only after the payment was broadcast and its
\* wait returned a receipt with status 'confirmed'; when the wait fails or
\* the receipt's status is not 'confirmed' the request fails and no
\* notification is sent for it.
C32_NotifiedOnlyAfterConfirmedPayment ==
  /\ notified # <<>> =>
       /\ OBefore("broadcast", "notify")
       /\ OBefore("receipt", "notify")
       /\ oreceipt # NoAnswer
       /\ oreceipt.status = "confirmed"
       /\ notified[1].txHash = paymentTx.hash
  /\ (WaitFailed \/ (ODid("receipt") /\ oreceipt.status # "confirmed")) =>
       /\ opc = "raised"
       /\ notified = <<>>
C32_Witness ==
  /\ opc = "raised"
  /\ oservice = "render"
  /\ ODid("broadcast")
  /\ oreceipt # NoAnswer
  /\ oreceipt.status = "failed"
  /\ notified = <<>>

\* C33: every request that returns success, requestRenderService and
\* requestDataProcessing alike, has notified the paid agent with the hash of
\* the payment, the job id of its metadata and the task payload.
C33_SuccessMeansNotified ==
  opc = "returned" =>
    /\ Len(notified) = 1
    /\ notified[1].txHash = paymentTx.hash
    /\ notified[1].jobId = paymentTx.metadata.jobId
    /\ OBefore("notify", "return")
(***************************************************************************)
(* Properties of node selection under RegistrySpec                         *)
(***************************************************************************)
\* node is what the policy picks from the registry nodes
PickedFrom(nodes, strategy, node) ==
  IF nodes = <<>> THEN node = NoNode
  ELSE /\ \E i \in DOMAIN nodes : node = nodes[i]
       /\ strategy = "load-based" =>
            \A i \in DOMAIN nodes : node.load <= nodes[i].load
       /\ strategy \notin {"round-robin", "load-based"} => node = nodes[1]

\* C31: however routeTask calls and updates of the registry interleave, each
\* selection reads the registry of one moment: the node it picks is a node
\* of that registry as it stood, never a mix of two states of a node, and
\* it satisfies the policy for that registry.
C31_SelectionReadsOneRegistry ==
  [][/\ (rpc = "idle" /\ rpc' # "idle") =>
          PickedFrom(networkNodes, routingStrategy, selectedNode')
     /\ (other.pc = "idle" /\ other'.pc # "idle") =>
          PickedFrom(networkNodes, routingStrategy, other'.node)]_vars
C31_Witness ==
  /\ routingStrategy = "load-based"
  /\ rpc = "sending"
  /\ other.pc = "sending"
  /\ other.node.id # selectedNode.id
  /\ \E i \in DOMAIN networkNodes :
       /\ networkNodes[i].id = selectedNode.id
       /\ networkNodes[i] # selectedNode
====
